---- MODULE Spec2Model ----
(***************************************************************************)
(* A model of the png-codec scanline transform (filter / reconstruct), of  *)
(* its neighbour sampling (Square), of the five filter function pairs      *)
(* (Filters), of the chunk parser (PNGDecoder._chunker), of the decoder's  *)
(* construction (PNGDecoder.__init__) and of the encoder's filter          *)
(* selection and IDAT split (PNGEncoder).                                  *)
(*                                                                         *)
(* Byte buffers are sequences of numbers in 0..255.  Python indexes from   *)
(* 0, TLA+ sequences from 1: At(s, i) is Python's s[i].                    *)
(***************************************************************************)
EXTENDS Integers, Sequences, FiniteSets, TLC

VARIABLES
    pc,                 \* position of the call under way
    source_data,        \* filter: the raw pixel bytes
    filter_bytes,       \* filter: the per-row filter-kind pattern
    stride,             \* bytes per raw row, 4 * width
    filter_byte,        \* filter: the tag of the row being filtered
    gen_i,              \* filter: how many tags filter_byte_gen has yielded
    filter_data,        \* filter: the filtered stream built so far
    channel,            \* how the stream handed to reconstruct was obtained
    recon_input,        \* reconstruct: its filter_data argument
    recon_data,         \* reconstruct: the bytes reconstructed so far
    reconstruction_func,\* reconstruct: the function selected for the row
    square,             \* the Square sampled last
    kx, ka, kb, kc,     \* kernel: the neighbour window under test
    kfilt,              \* kernel: filter kind under test
    kout,               \* kernel: results of the filter functions
    data_buffer,        \* decoder: the datastream after the signature
    tell,               \* decoder: read position in data_buffer
    heap,               \* decoder: the Chunk objects, by order of creation
    chunks,             \* decoder: the chunk list, of references into heap
    chunk_idx,          \* decoder: number of chunks read
    idat_chunk_idx,     \* decoder: index of the IDAT chunk, or NoIndex
    damaged,            \* which chunk of the datastream was damaged, and how
    file,               \* decoder: the bytes of the file at self.path
    ihdr,               \* decoder: self._ihdr, the fields _extract_IHDR read
    png_reconstructor,  \* decoder: the Reconstructor, once it is created
    raw_source,         \* encoder: the RGBA pixels, a tuple each
    width, height,      \* encoder: the image's size in pixels
    selections,         \* encoder: what each call of best_filters returned
    compressed,         \* encoder: the zlib stream handed to the chunk splitter
    idat_chunks,        \* encoder: what compress_to_idat_chunks returned
    datastream,         \* encoder: how final_datastream ended, and its bytes
    recon_reads,        \* reconstruct: the output indices the last step read
    instance,           \* a Reconstructor object: its attributes
    bufs,               \* the streams handed to the calls on instance
    results             \* how each call on instance ended, in order

kernel_vars == <<kx, ka, kb, kc, kfilt, kout>>

pipeline_vars == <<source_data, filter_bytes, stride, filter_byte, gen_i,
                   filter_data, channel, recon_input, recon_data,
                   reconstruction_func, square, recon_reads>>

chunk_vars == <<data_buffer, tell, heap, chunks, chunk_idx, idat_chunk_idx,
                damaged>>

decoder_vars == <<file, ihdr, png_reconstructor>>

encoder_vars == <<raw_source, width, height, selections, compressed,
                  idat_chunks, datastream>>

reconstructor_vars == <<instance, bufs, results>>

vars == <<pc, pipeline_vars, kernel_vars, chunk_vars, decoder_vars,
          encoder_vars, reconstructor_vars>>

(***************************************************************************)
(* Bounds of the model.                                                    *)
(***************************************************************************)
MaxRows == 3
MaxPatLen == 2

Widths == {1, 2}
\* The widths of the pipeline's images: with 3, the stride of 12 of the tests.
PipelineWidths == Widths \cup {3}
FilterKinds == 0 .. 4
BadTags == {5, 255}
Byte == 0 .. 255

(***************************************************************************)
(* Python helpers.                                                         *)
(***************************************************************************)
At(s, i) == s[i + 1]

Abs(n) == IF n < 0 THEN -n ELSE n

Max(m, n) == IF m >= n THEN m ELSE n

\* Python's  n & 0xFF  on an int of either sign.
Mask8(n) == n % 256

bytes_per_pixel == 4

(***************************************************************************)
(* Square: the neighbour window.                                           *)
(***************************************************************************)
Square(x, a, b, c) == [x |-> x, a |-> a, b |-> b, c |-> c]

None == [x |-> -1, a |-> -1, b |-> -1, c |-> -1]

\* next_recon_square with the row of b and c reached the way next_filter_square
\* reaches it (line_offset - scan_incr).
next_recon_square_far_row(fdata, rdata, strd, bpp) ==
    LET scan_offset == Len(rdata) % strd
        line_offset == Len(rdata) \div strd
        filter_stride == strd + 1
        filter_byte_index(scan, line) == line * filter_stride + 1 + scan
        recon_byte_index(scan, line) == line * strd + scan
        a_scan == scan_offset - bpp
        b_line == line_offset - bpp
    IN  IF filter_byte_index(scan_offset, line_offset) >= Len(fdata)
        THEN [x |-> -1, a |-> -1, b |-> -1, c |-> -1]
        ELSE [x |-> At(fdata, filter_byte_index(scan_offset, line_offset)),
              a |-> IF a_scan >= 0
                      THEN At(rdata, recon_byte_index(a_scan, line_offset)) ELSE 0,
              b |-> IF b_line >= 0
                      THEN At(rdata, recon_byte_index(scan_offset, b_line)) ELSE 0,
              c |-> IF a_scan >= 0 /\ b_line >= 0
                      THEN At(rdata, recon_byte_index(a_scan, b_line)) ELSE 0]

next_recon_square(fdata, rdata, strd, bpp) ==
    LET scan_offset == Len(rdata) % strd
        line_offset == Len(rdata) \div strd
        scan_incr == bpp
        line_incr == 1
        filter_stride == strd + 1
        filter_byte_index(scan, line) == line * filter_stride + 1 + scan
        recon_byte_index(scan, line) == line * strd + scan
        a_scan == scan_offset - scan_incr
        b_line == line_offset - line_incr
    IN  IF filter_byte_index(scan_offset, line_offset) >= Len(fdata)
        THEN None
        ELSE Square(
               At(fdata, filter_byte_index(scan_offset, line_offset)),
               IF a_scan >= 0
                 THEN At(rdata, recon_byte_index(a_scan, line_offset)) ELSE 0,
               IF b_line >= 0
                 THEN At(rdata, recon_byte_index(scan_offset, b_line)) ELSE 0,
               IF a_scan >= 0 /\ b_line >= 0
                 THEN At(rdata, recon_byte_index(a_scan, b_line)) ELSE 0)

\* recon_read_indices with b taken from the line under reconstruction.
recon_read_indices_same_line(rdata, strd, bpp) ==
    LET scan_offset == Len(rdata) % strd
        line_offset == Len(rdata) \div strd
        scan_incr == bpp
        line_incr == 1
        recon_byte_index(scan, line) == line * strd + scan
        a_offsets == <<scan_offset - scan_incr, line_offset>>
        b_offsets == <<scan_offset, line_offset>>
        c_offsets == <<scan_offset - scan_incr, line_offset - line_incr>>
    IN  (IF a_offsets[1] >= 0
           THEN {recon_byte_index(a_offsets[1], a_offsets[2])} ELSE {})
        \cup (IF b_offsets[2] >= 0
                THEN {recon_byte_index(b_offsets[1], b_offsets[2])} ELSE {})
        \cup (IF c_offsets[1] >= 0 /\ c_offsets[2] >= 0
                THEN {recon_byte_index(c_offsets[1], c_offsets[2])} ELSE {})

\* next_recon_square's reads of recon_data: rec_idx_a, rec_idx_b and rec_idx_c,
\* each read only under its guard.
recon_read_indices(rdata, strd, bpp) ==
    LET scan_offset == Len(rdata) % strd
        line_offset == Len(rdata) \div strd
        scan_incr == bpp
        line_incr == 1
        recon_byte_index(scan, line) == line * strd + scan
        a_offsets == <<scan_offset - scan_incr, line_offset>>
        b_offsets == <<scan_offset, line_offset - line_incr>>
        c_offsets == <<scan_offset - scan_incr, line_offset - line_incr>>
    IN  (IF a_offsets[1] >= 0
           THEN {recon_byte_index(a_offsets[1], a_offsets[2])} ELSE {})
        \cup (IF b_offsets[2] >= 0
                THEN {recon_byte_index(b_offsets[1], b_offsets[2])} ELSE {})
        \cup (IF c_offsets[1] >= 0 /\ c_offsets[2] >= 0
                THEN {recon_byte_index(c_offsets[1], c_offsets[2])} ELSE {})

filtered_data_offsets(fdata, strd) ==
    LET filter_stride == strd + 1
    IN  <<Max((Len(fdata) % filter_stride) - 1, 0), Len(fdata) \div filter_stride>>

\* The row offset next_filter_square subtracts to reach the row of b and c.
\* The row of b and c one line above that of x.
filter_line_incr_one(bpp) == 1

filter_line_incr(bpp) == bpp

next_filter_square(sdata, fdata, strd, bpp) ==
    LET source_byte_index(scan, line) == line * strd + scan
        offs == filtered_data_offsets(fdata, strd)
        scan_offset == offs[1]
        line_offset == offs[2]
        scan_incr == bpp
        a_scan == scan_offset - scan_incr
        b_line == line_offset - filter_line_incr(bpp)
    IN  IF source_byte_index(scan_offset, line_offset) >= Len(sdata)
        THEN None
        ELSE Square(
               At(sdata, source_byte_index(scan_offset, line_offset)),
               IF a_scan >= 0
                 THEN At(sdata, source_byte_index(a_scan, line_offset)) ELSE 0,
               IF b_line >= 0
                 THEN At(sdata, source_byte_index(scan_offset, b_line)) ELSE 0,
               IF a_scan >= 0 /\ b_line >= 0
                 THEN At(sdata, source_byte_index(a_scan, b_line)) ELSE 0)

\* x_offsets that never leaves the first line.
x_offsets_first_line(fdata, strd) ==
    LET filter_stride == strd + 1
    IN  <<Max((Len(fdata) % filter_stride) - 1, 0), 0>>

\* (scan_offset, line_offset) of the byte filter_next_square samples next.
x_offsets(fdata, strd) ==
    LET filter_stride == strd + 1
    IN  <<Max((Len(fdata) % filter_stride) - 1, 0), Len(fdata) \div filter_stride>>

\* Square.filter_next_square of png_decoder, the sampler of Reconstructor.filter:
\* a is the byte before x, b and c come from the line above.
filter_next_square(sdata, fdata, strd) ==
    LET source_byte_index(scan, line) == line * strd + scan
        offs == x_offsets(fdata, strd)
        a_offsets == <<offs[1] - 1, offs[2]>>
        b_offsets == <<offs[1], offs[2] - 1>>
        c_offsets == <<offs[1] - 1, offs[2] - 1>>
    IN  IF source_byte_index(offs[1], offs[2]) >= Len(sdata)
        THEN None
        ELSE Square(
               At(sdata, source_byte_index(offs[1], offs[2])),
               IF a_offsets[1] >= 0
                 THEN At(sdata, source_byte_index(a_offsets[1], a_offsets[2]))
                 ELSE 0,
               IF b_offsets[2] >= 0
                 THEN At(sdata, source_byte_index(b_offsets[1], b_offsets[2]))
                 ELSE 0,
               IF c_offsets[1] >= 0 /\ c_offsets[2] >= 0
                 THEN At(sdata, source_byte_index(c_offsets[1], c_offsets[2]))
                 ELSE 0)

(***************************************************************************)
(* Filters: the five function pairs.  Results are unmasked Python ints.    *)
(***************************************************************************)
\* paeth_predictor with the comparison of a against c strict: a tie between a
\* and c no longer goes to a.
paeth_predictor_strict(a, b, c) ==
    LET p == a + b - c
        pa == Abs(p - a)
        pb == Abs(p - b)
        pcc == Abs(p - c)
    IN  IF pa <= pb /\ pa < pcc THEN a
        ELSE IF pb <= pcc THEN b
        ELSE c

paeth_predictor(a, b, c) ==
    LET p == a + b - c
        pa == Abs(p - a)
        pb == Abs(p - b)
        pcc == Abs(p - c)
    IN  IF pa <= pb /\ pa <= pcc THEN a
        ELSE IF pb <= pcc THEN b
        ELSE c

\* none_filter subtracting the left neighbour, as sub_filter does.
none_filter_as_sub(sq) == sq.x - sq.a

none_filter(sq) == sq.x
none_recon(sq) == sq.x
sub_filter(sq) == sq.x - sq.a
sub_recon(sq) == sq.x + sq.a
up_filter(sq) == sq.x - sq.b
up_recon(sq) == sq.x + sq.b
average_filter(sq) == sq.x - ((sq.a + sq.b) \div 2)
\* average_recon rounding the mean up instead of down.
average_recon_ceil(sq) == sq.x + ((sq.a + sq.b + 1) \div 2)

average_recon(sq) == sq.x + ((sq.a + sq.b) \div 2)
paeth_filter(sq) == sq.x - paeth_predictor(sq.a, sq.b, sq.c)
paeth_recon(sq) == sq.x + paeth_predictor(sq.a, sq.b, sq.c)

\* Indexing the five-element list: an index past its end raises IndexError.
select_filter_func(fb) ==
    IF fb \in 0 .. 4
    THEN At(<<"none_filter", "sub_filter", "up_filter", "average_filter",
              "paeth_filter">>, fb)
    ELSE "IndexError"

select_reconstruction_func(fb) ==
    IF fb \in 0 .. 4
    THEN At(<<"none_recon", "sub_recon", "up_recon", "average_recon",
              "paeth_recon">>, fb)
    ELSE "IndexError"

\* Calling the function object that was selected.
Call(func, sq) ==
    CASE func = "none_filter" -> none_filter(sq)
      [] func = "none_recon" -> none_recon(sq)
      [] func = "sub_filter" -> sub_filter(sq)
      [] func = "sub_recon" -> sub_recon(sq)
      [] func = "up_filter" -> up_filter(sq)
      [] func = "up_recon" -> up_recon(sq)
      [] func = "average_filter" -> average_filter(sq)
      [] func = "average_recon" -> average_recon(sq)
      [] func = "paeth_filter" -> paeth_filter(sq)
      [] func = "paeth_recon" -> paeth_recon(sq)

(***************************************************************************)
(* Inputs: images in the manner of the tests' image_fixture, a row of      *)
(* pixels taken cyclically from a palette, each row shifted by rowstep.    *)
(***************************************************************************)
Palette == << <<255, 0, 0, 255>>, <<0, 255, 0, 255>>, <<0, 0, 255, 255>>,
              <<100, 150, 200, 250>> >>

image(w, h, seed, rowstep) ==
    [i \in 1 .. (4 * w * h) |->
        LET k == i - 1
            r == k \div (4 * w)
            p == (k % (4 * w)) \div 4
        IN  Palette[((seed + r * rowstep + p) % Len(Palette)) + 1][(k % 4) + 1]]

Seeds == 0 .. 3
RowSteps == {0, 1}

RECURSIVE SeqsUpTo(_, _)
SeqsUpTo(S, n) ==
    IF n = 0 THEN {<<>>}
    ELSE LET shorter == SeqsUpTo(S, n - 1)
         IN  shorter \cup { Append(s, e) : s \in shorter, e \in S }

Patterns == SeqsUpTo(FilterKinds, MaxPatLen) \ {<<>>}

(***************************************************************************)
(* Initial state: the arguments of a call of filter.                       *)
(***************************************************************************)
NoResult == [filt |-> 0, masked |-> 0, recon |-> 0, paeth |-> 0]

KernelIdle ==
    /\ kx = 0 /\ ka = 0 /\ kb = 0 /\ kc = 0 /\ kfilt = 0 /\ kout = NoResult

NoIndex == -1

NoDamage == [idx |-> -1, kind |-> "none"]

ChunkIdle ==
    /\ data_buffer = <<>> /\ tell = 0 /\ heap = <<>> /\ chunks = <<>>
    /\ chunk_idx = 0 /\ idat_chunk_idx = NoIndex /\ damaged = NoDamage

NoHeader == [length |-> 0, chunk_type |-> <<>>, chunk_data |-> <<>>]

DecoderIdle ==
    /\ file = <<>> /\ ihdr = NoHeader /\ png_reconstructor = <<>>

NoDatastream == [raised |-> "none", value |-> <<>>]

NoInstance == [module |-> "none"]

ReconstructorIdle ==
    /\ instance = NoInstance /\ bufs = <<>> /\ results = <<>>

NoReads == [have |-> 0, idx |-> {}]

EncoderIdle ==
    /\ raw_source = <<>> /\ width = 0 /\ height = 0 /\ selections = <<>>
    /\ compressed = <<>> /\ idat_chunks = <<>> /\ datastream = NoDatastream

Init ==
    /\ pc = "start"
    /\ \E w \in PipelineWidths, h \in 1 .. MaxRows, seed \in Seeds, rowstep \in RowSteps :
          /\ source_data = image(w, h, seed, rowstep)
          /\ stride = 4 * w
    /\ filter_bytes \in Patterns
    /\ filter_byte = -1
    /\ gen_i = 0
    /\ filter_data = <<>>
    /\ channel = "none"
    /\ recon_input = <<>>
    /\ recon_data = <<>>
    /\ reconstruction_func = "unbound"
    /\ square = None
    /\ recon_reads = NoReads
    /\ KernelIdle
    /\ ChunkIdle
    /\ DecoderIdle
    /\ EncoderIdle
    /\ ReconstructorIdle

(***************************************************************************)
(* Reconstructor.filter(source_data, filter_bytes, stride)                 *)
(***************************************************************************)
\* next(filter_byte_gen): filter_bytes[i % len(filter_bytes)] for i in count()
next_filter_byte(i) == At(filter_bytes, i % Len(filter_bytes))

CallFilter ==
    /\ pc = "start"
    /\ filter_byte' = next_filter_byte(gen_i)
    /\ gen_i' = gen_i + 1
    /\ filter_data' = <<next_filter_byte(gen_i)>>
    /\ pc' = "filter"
    /\ UNCHANGED <<source_data, filter_bytes, stride, channel, recon_input,
                   recon_data, reconstruction_func, square, recon_reads,
                   kernel_vars, chunk_vars, decoder_vars, encoder_vars,
                   reconstructor_vars>>

\* One evaluation of the while condition and, when it holds, of the body.
FilterStep ==
    /\ pc = "filter"
    /\ LET sq == filter_next_square(source_data, filter_data, stride)
           func == select_filter_func(filter_byte)
       IN  /\ square' = sq
           /\ IF sq = None
              THEN /\ pc' = "filtered"
                   /\ UNCHANGED <<filter_data, filter_byte, gen_i>>
              ELSE IF func = "IndexError"
              THEN /\ pc' = "filter_raised"
                   /\ UNCHANGED <<filter_data, filter_byte, gen_i>>
              ELSE LET appended == Append(filter_data, Mask8(Call(func, sq)))
                   IN  /\ pc' = "filter"
                       /\ IF Len(appended) % (stride + 1) = 0
                          THEN /\ filter_byte' = next_filter_byte(gen_i)
                               /\ gen_i' = gen_i + 1
                               /\ filter_data' =
                                      Append(appended, next_filter_byte(gen_i))
                          ELSE /\ filter_data' = appended
                               /\ UNCHANGED <<filter_byte, gen_i>>
    /\ UNCHANGED <<source_data, filter_bytes, stride, channel, recon_input,
                   recon_data, reconstruction_func, recon_reads,
                   kernel_vars, chunk_vars, decoder_vars, encoder_vars,
                   reconstructor_vars>>

(***************************************************************************)
(* reconstruct(filter_data, stride, bytes_per_pixel)                       *)
(***************************************************************************)
\* The streams handed to reconstruct: the output of filter as it is; with
\* one row's tag replaced by a value outside 0..4, whole or ending right
\* after that tag; or with its last bytes cut off (1: the tag that follows
\* the last row; 2: the last data byte too; stride + 1: all data of the last
\* row; stride + 2: the whole last row).
SetTag(s, row, tag) == [s EXCEPT ![row * (stride + 1) + 1] = tag]

Cuts == {1, 2, stride + 1, stride + 2}

CallReconstruct ==
    /\ pc = "filtered"
    /\ \/ /\ channel' = "intact"
          /\ recon_input' = filter_data
       \/ \E row \in 0 .. (Len(filter_data) \div (stride + 1)), tag \in BadTags :
             /\ row * (stride + 1) < Len(filter_data)
             /\ channel' = "badtag"
             /\ \/ recon_input' = SetTag(filter_data, row, tag)
                \/ recon_input' =
                      SubSeq(SetTag(filter_data, row, tag), 1, row * (stride + 1) + 1)
       \/ \E cut \in Cuts :
             /\ cut <= Len(filter_data)
             /\ channel' = "cut"
             /\ recon_input' = SubSeq(filter_data, 1, Len(filter_data) - cut)
    /\ recon_data' = <<>>
    /\ reconstruction_func' = "unbound"
    /\ recon_reads' = NoReads
    /\ pc' = "reconstruct"
    /\ UNCHANGED <<source_data, filter_bytes, stride, filter_byte, gen_i,
                   filter_data, square, kernel_vars, chunk_vars, decoder_vars, encoder_vars,
                   reconstructor_vars>>

ReconstructStep ==
    /\ pc = "reconstruct"
    /\ LET sq == next_recon_square(recon_input, recon_data, stride, bytes_per_pixel)
           row_start == (Len(recon_data) % stride) = 0
           filter_byte_index == (Len(recon_data) \div stride) * (stride + 1)
           func == IF row_start
                   THEN select_reconstruction_func(At(recon_input, filter_byte_index))
                   ELSE reconstruction_func
       IN  /\ square' = sq
           /\ recon_reads' =
                 [have |-> Len(recon_data),
                  idx |-> IF sq = None THEN {}
                          ELSE recon_read_indices(recon_data, stride, bytes_per_pixel)]
           /\ IF sq = None
              THEN /\ pc' = "returned"
                   /\ UNCHANGED <<recon_data, reconstruction_func>>
              ELSE IF func = "IndexError"
              THEN /\ pc' = "raised"
                   /\ UNCHANGED <<recon_data, reconstruction_func>>
              ELSE /\ pc' = "reconstruct"
                   /\ reconstruction_func' = func
                   /\ recon_data' = Append(recon_data, Mask8(Call(func, sq)))
    /\ UNCHANGED <<source_data, filter_bytes, stride, filter_byte, gen_i,
                   filter_data, channel, recon_input,
                   kernel_vars, chunk_vars, decoder_vars, encoder_vars,
                   reconstructor_vars>>

Next == CallFilter \/ FilterStep \/ CallReconstruct \/ ReconstructStep

Spec == Init /\ [][Next]_vars

(***************************************************************************)
(* Square.next_filter_square(source_data, filtered_data, stride,           *)
(* bytes_per_pixel) of square.py, called as the tests and consume_lines   *)
(* call it: on a source buffer and a filtered buffer that holds, for each *)
(* row begun, the row's tag and the bytes produced so far.                 *)
(***************************************************************************)
\* The tests' buffer continued the way the tests build it: each further
\* byte is the output, masked to a byte, of the filter of tag fb on the
\* square sampled for the buffer so far, and each row begins with its tag.
RECURSIVE filtered_loop(_, _, _, _, _)
filtered_loop(sdata, fdata, strd, fb, n) ==
    LET sq == next_filter_square(sdata, fdata, strd, bytes_per_pixel)
    IN  IF Len(fdata) >= n THEN SubSeq(fdata, 1, n)
        ELSE IF sq = None THEN fdata
        ELSE LET appended ==
                     Append(fdata, Mask8(Call(select_filter_func(fb), sq)))
             IN  filtered_loop(sdata,
                               IF Len(appended) % (strd + 1) = 0
                                 THEN Append(appended, fb) ELSE appended,
                               strd, fb, n)

\* The first n bytes of the filtered buffer of the tests: the tag, then
\* source_data[0], then (source_data[1] - source_data[0]) & 0xFF, which the
\* tests write out, then the bytes of filtered_loop.
filtered_so_far(sdata, strd, fb, n) ==
    LET arranged == <<fb, At(sdata, 0), Mask8(At(sdata, 1) - At(sdata, 0))>>
    IN  IF n <= 3 THEN SubSeq(arranged, 1, n)
        ELSE filtered_loop(sdata, arranged, strd, fb, n)

InitSquare ==
    /\ pc = "square"
    /\ \E w \in PipelineWidths, h \in 1 .. MaxRows, seed \in Seeds, rowstep \in RowSteps :
          /\ source_data = image(w, h, seed, rowstep)
          /\ stride = 4 * w
          /\ filter_byte = 1
          /\ \E n \in 1 .. (h * (stride + 1) + 1) :
                filter_data = filtered_so_far(source_data, stride, filter_byte, n)
    /\ filter_bytes = <<>>
    /\ gen_i = 0
    /\ channel = "none"
    /\ recon_input = <<>>
    /\ recon_data = <<>>
    /\ reconstruction_func = "unbound"
    /\ square = None
    /\ recon_reads = NoReads
    /\ KernelIdle
    /\ ChunkIdle
    /\ DecoderIdle
    /\ EncoderIdle
    /\ ReconstructorIdle

NextFilterSquare ==
    /\ pc = "square"
    /\ square' = next_filter_square(source_data, filter_data, stride, bytes_per_pixel)
    /\ pc' = "sampled"
    /\ UNCHANGED <<source_data, filter_bytes, stride, filter_byte, gen_i,
                   filter_data, channel, recon_input, recon_data,
                   reconstruction_func, recon_reads,
                   kernel_vars, chunk_vars, decoder_vars, encoder_vars,
                   reconstructor_vars>>

NextSquare == NextFilterSquare

SpecSquare == InitSquare /\ [][NextSquare]_vars

(***************************************************************************)
(* filter and reconstruct on buffers of any length and any stride >= 1,    *)
(* whole rows or not, the calls and their loops running to their end: the  *)
(* code is sequential and each step is taken once it can be.               *)
(***************************************************************************)
MaxStride == 3
MaxSourceLen == 4

SourceBytes == {3, 250}

\* Tags for the rows: one kind, two kinds in turn, and a kind outside 0..4.
TagPatterns == {<<0>>, <<1, 4>>, <<3, 2>>, <<5>>}

InitTermination ==
    /\ pc = "start"
    /\ stride \in 1 .. MaxStride
    /\ source_data \in SeqsUpTo(SourceBytes, MaxSourceLen)
    /\ filter_bytes \in TagPatterns
    /\ filter_byte = -1
    /\ gen_i = 0
    /\ filter_data = <<>>
    /\ channel = "none"
    /\ recon_input = <<>>
    /\ recon_data = <<>>
    /\ reconstruction_func = "unbound"
    /\ square = None
    /\ recon_reads = NoReads
    /\ KernelIdle
    /\ ChunkIdle
    /\ DecoderIdle
    /\ EncoderIdle
    /\ ReconstructorIdle

SpecTermination == InitTermination /\ [][Next]_vars /\ WF_vars(Next)

(***************************************************************************)
(* The filter functions on their own: a window (x, a, b, c) and a filter   *)
(* kind are drawn, the kind's filter function is applied, its result is    *)
(* masked to a byte as filter does, and the kind's reconstruction function *)
(* is applied to the masked byte with the same neighbours.                 *)
(***************************************************************************)
NeighbourBytes == {0, 1, 3, 128, 255}

PipelineIdle ==
    /\ source_data = <<>> /\ filter_bytes = <<>> /\ stride = 4
    /\ filter_byte = -1 /\ gen_i = 0 /\ filter_data = <<>>
    /\ channel = "none" /\ recon_input = <<>> /\ recon_data = <<>>
    /\ reconstruction_func = "unbound" /\ square = None
    /\ recon_reads = NoReads

InitKernel ==
    /\ pc = "kernel"
    /\ kx \in Byte
    /\ ka \in NeighbourBytes /\ kb \in NeighbourBytes /\ kc \in NeighbourBytes
    /\ kfilt \in FilterKinds
    /\ kout = NoResult
    /\ PipelineIdle
    /\ ChunkIdle
    /\ DecoderIdle
    /\ EncoderIdle
    /\ ReconstructorIdle

ApplyKernel ==
    /\ pc = "kernel"
    /\ LET filt == Call(select_filter_func(kfilt), Square(kx, ka, kb, kc))
           masked == Mask8(filt)
           recon == Call(select_reconstruction_func(kfilt), Square(masked, ka, kb, kc))
       IN  kout' = [filt |-> filt, masked |-> masked, recon |-> recon,
                    paeth |-> paeth_predictor(ka, kb, kc)]
    /\ pc' = "kernel_done"
    /\ UNCHANGED <<pipeline_vars, kx, ka, kb, kc, kfilt, chunk_vars,
                   decoder_vars, encoder_vars,
                   reconstructor_vars>>

NextKernel == ApplyKernel

SpecKernel == InitKernel /\ [][NextKernel]_vars

(***************************************************************************)
(* zlib.crc32.  A 32-bit value is held as its 32 bits, lowest first (a     *)
(* register), or as its four big-endian bytes, the form struct.pack(">I")  *)
(* gives it in the datastream: two 32-bit values are equal exactly when    *)
(* their four bytes are.                                                   *)
(***************************************************************************)
Bit(n, i) == (n \div (2 ^ i)) % 2

\* 0xEDB88320, the reflected CRC-32 polynomial, as register bits.
Poly ==
    LET bytesLE == <<32, 131, 184, 237>>
    IN  [i \in 1 .. 32 |-> Bit(bytesLE[((i - 1) \div 8) + 1], (i - 1) % 8)] \o <<>>

Ones == [i \in 1 .. 32 |-> 1]

\* Registers are kept as explicit tuples (the concatenation with the empty
\* tuple enumerates the function).
Xor32(u, v) == [i \in 1 .. 32 |-> (u[i] + v[i]) % 2] \o <<>>

ShiftRight(u) == Tail(u) \o <<0>>

RECURSIVE crc_shift(_, _)
crc_shift(reg, n) ==
    IF n = 0 THEN reg
    ELSE crc_shift(IF reg[1] = 1 THEN Xor32(ShiftRight(reg), Poly)
                   ELSE ShiftRight(reg), n - 1)

crc_byte(reg, byte) ==
    crc_shift([i \in 1 .. 32 |-> IF i <= 8 THEN (reg[i] + Bit(byte, i - 1)) % 2
                                  ELSE reg[i]] \o <<>>, 8)

RECURSIVE crc_bytes(_, _, _)
crc_bytes(reg, data, k) ==
    IF k > Len(data) \/ Len(reg) # 32 THEN reg
    ELSE crc_bytes(crc_byte(reg, data[k]), data, k + 1)

RegOfBytes(b4) ==
    [i \in 1 .. 32 |-> Bit(b4[4 - ((i - 1) \div 8)], (i - 1) % 8)] \o <<>>

BytesOfReg(reg) ==
    [j \in 1 .. 4 |->
        LET base == 8 * (4 - j)
        IN  reg[base + 1] + 2 * reg[base + 2] + 4 * reg[base + 3]
            + 8 * reg[base + 4] + 16 * reg[base + 5] + 32 * reg[base + 6]
            + 64 * reg[base + 7] + 128 * reg[base + 8]] \o <<>>

\* zlib.crc32(data, value), value and result as four big-endian bytes.
crc32(data, value) ==
    BytesOfReg(Xor32(crc_bytes(Xor32(RegOfBytes(value), Ones), data, 1), Ones))

\* zlib.crc32(data): the starting value is 0.
crc32_0(data) == crc32(data, <<0, 0, 0, 0>>)

\* Chunk.calc_crc and the expression of _validate_crc and combine_chunks.
calc_crc(chunk_data, chunk_type) == crc32(chunk_data, crc32_0(chunk_type))

(***************************************************************************)
(* The datastream: struct's big-endian fields.                             *)
(***************************************************************************)
IHDR_TYPE == <<73, 72, 68, 82>>
IDAT_TYPE == <<73, 68, 65, 84>>
IEND_TYPE == <<73, 69, 78, 68>>

\* struct.pack(">I", n) for the lengths the model writes.
PackU32(n) ==
    <<(n \div 16777216) % 256, (n \div 65536) % 256, (n \div 256) % 256, n % 256>>

\* struct.unpack(">I", b4) as a number.
UnpackU32(b4) == ((b4[1] * 256 + b4[2]) * 256 + b4[3]) * 256 + b4[4]

\* BytesIO.read(n) at position pos: at most n bytes, fewer at the end.
Read(buf, pos, n) ==
    SubSeq(buf, pos + 1, IF pos + n <= Len(buf) THEN pos + n ELSE Len(buf))

\* IHDRData(1, 1, 8, 6, 0, 0, 0) packed ">IIBBBBB".
IhdrPayload == PackU32(1) \o PackU32(1) \o <<8, 6, 0, 0, 0>>

IdatPayloads == {<<>>, <<120>>, <<99, 1>>}

Plan(type, payload) == [type |-> type, payload |-> payload]

\* One chunk on the wire: length, type, payload, CRC32(type || payload); a
\* damaged chunk has, after framing, the lowest bit of its first payload byte
\* flipped ("payload"), the lowest bit of its last CRC byte flipped ("crc"),
\* or a length field that declares one byte too many ("length").
FlipLow(b) == IF b % 2 = 0 THEN b + 1 ELSE b - 1

Frame(plan, damage) ==
    LET crc == calc_crc(plan.payload, plan.type)
        payload == IF damage = "payload" /\ Len(plan.payload) > 0
                   THEN [plan.payload EXCEPT ![1] = FlipLow(@)]
                   ELSE plan.payload
        stored == IF damage = "crc" THEN [crc EXCEPT ![4] = FlipLow(@)] ELSE crc
        declared == IF damage = "length" THEN Len(plan.payload) + 1
                    ELSE Len(plan.payload)
    IN  PackU32(declared) \o plan.type \o payload \o stored

RECURSIVE Serialize(_, _, _)
Serialize(plans, dmg, k) ==
    IF k > Len(plans) THEN <<>>
    ELSE Frame(plans[k], IF dmg.idx = k - 1 THEN dmg.kind ELSE "none")
           \o Serialize(plans, dmg, k + 1)

MaxIdat == 3

IdatRuns == SeqsUpTo({Plan(IDAT_TYPE, p) : p \in IdatPayloads}, MaxIdat)

\* IHDR, a run of IDAT chunks, IEND or not, and after IEND a further chunk
\* or not.
Datastreams ==
    { <<Plan(IHDR_TYPE, IhdrPayload)>> \o run \o tail :
        run \in IdatRuns,
        tail \in { <<>>, <<Plan(IEND_TYPE, <<>>)>>,
                   <<Plan(IEND_TYPE, <<>>), Plan(IDAT_TYPE, <<120>>)>> } }

Damages(plans) ==
    {NoDamage}
      \cup { [idx |-> i, kind |-> k] :
               i \in 0 .. (Len(plans) - 1), k \in {"crc", "length"} }
      \cup { [idx |-> i, kind |-> "payload"] :
               i \in { j \in 0 .. (Len(plans) - 1) : Len(plans[j + 1].payload) > 0 } }

InitChunker ==
    /\ pc = "chunker"
    /\ \E plans \in Datastreams :
          \E dmg \in Damages(plans) :
             /\ data_buffer = Serialize(plans, dmg, 1)
             /\ damaged = dmg
    /\ tell = 0
    /\ heap = <<>>
    /\ chunks = <<>>
    /\ chunk_idx = 0
    /\ idat_chunk_idx = NoIndex
    /\ PipelineIdle
    /\ KernelIdle
    /\ DecoderIdle
    /\ EncoderIdle
    /\ ReconstructorIdle

(***************************************************************************)
(* Chunk and PNGDecoder._chunker                                           *)
(***************************************************************************)
Chunk(length, chunk_type, chunk_data, crc) ==
    [length |-> length, chunk_type |-> chunk_type, chunk_data |-> chunk_data,
     crc |-> crc]

\* self.combine_chunks(chunk_b): the fields self has afterwards.
combine_chunks(self, chunk_b) ==
    LET joined == self.chunk_data \o chunk_b.chunk_data
    IN  Chunk(self.length + chunk_b.length, self.chunk_type, joined,
              calc_crc(joined, self.chunk_type))

\* _validate_crc never raising, whatever the two values are.
validate_crc_never_raises(chunk_length, chunk_type, chunk_data, expected_crc) ==
    TRUE

\* _validate_crc: TRUE when it returns, FALSE when it raises ValueError.
validate_crc(chunk_length, chunk_type, chunk_data, expected_crc) ==
    calc_crc(chunk_data, chunk_type) = expected_crc

\* list.remove(x) for an x that is in the list.
RECURSIVE Remove(_, _)
Remove(list, x) ==
    IF list = <<>> THEN <<>>
    ELSE IF Head(list) = x THEN Tail(list)
    ELSE <<Head(list)>> \o Remove(Tail(list), x)

\* The loop of _combine_IDAT_data over the slice taken before it starts:
\* k is the next element of the slice, previous_chunk the last one visited.
RECURSIVE combine_loop(_, _, _, _, _)
combine_loop(hp, list, slice, k, previous_chunk) ==
    IF k > Len(slice) THEN [heap |-> hp, chunks |-> list]
    ELSE IF previous_chunk # NoIndex
    THEN combine_loop(
           [hp EXCEPT ![previous_chunk] = combine_chunks(@, hp[slice[k]])],
           Remove(list, slice[k]), slice, k + 1, slice[k])
    ELSE combine_loop(hp, list, slice, k + 1, slice[k])

\* chunks[self.idat_chunk_idx : -1], idat_chunk_idx being None or a number.
combine_IDAT_data(hp, list, idat_idx) ==
    LET from == IF idat_idx = NoIndex THEN 0 ELSE idat_idx
    IN  combine_loop(hp, list, SubSeq(list, from + 1, Len(list) - 1), 1, NoIndex)

\* One pass of the while loop of _chunker, or its end: the loop condition,
\* the short read that struct.unpack rejects, the length test, the checksum,
\* the chunk appended and, at IEND, the merge and the return.
ChunkerStep ==
    /\ pc = "chunker"
    /\ LET buffer_length == Len(data_buffer)
           head == Read(data_buffer, tell, 8)
           chunk_length == UnpackU32(SubSeq(head, 1, 4))
           chunk_type == SubSeq(head, 5, 8)
           at_data == tell + 8
           chunk_data == Read(data_buffer, at_data, chunk_length)
           expected_crc == Read(data_buffer, at_data + chunk_length, 4)
           created == Chunk(chunk_length, chunk_type, chunk_data, expected_crc)
           is_first_idat == chunk_type = IDAT_TYPE
                              /\ (idat_chunk_idx = NoIndex \/ idat_chunk_idx = 0)
           idat_idx == IF is_first_idat THEN chunk_idx ELSE idat_chunk_idx
           appended == Append(chunks, Len(heap) + 1)
           combined == combine_IDAT_data(Append(heap, created), appended, idat_idx)
       IN  IF ~(tell <= buffer_length)
           THEN /\ pc' = "no_iend_error"
                /\ UNCHANGED <<tell, heap, chunks, chunk_idx, idat_chunk_idx>>
           ELSE IF Len(head) < 8
           THEN /\ pc' = "struct_error"
                /\ tell' = tell + Len(head)
                /\ UNCHANGED <<heap, chunks, chunk_idx, idat_chunk_idx>>
           ELSE IF chunk_length + 4 + at_data > buffer_length
           THEN /\ pc' = "length_error"
                /\ tell' = at_data
                /\ UNCHANGED <<heap, chunks, chunk_idx, idat_chunk_idx>>
           ELSE IF ~validate_crc(chunk_length, chunk_type, chunk_data, expected_crc)
           THEN /\ pc' = "checksum_error"
                /\ tell' = at_data + chunk_length + 4
                /\ UNCHANGED <<heap, chunks, chunk_idx, idat_chunk_idx>>
           ELSE /\ idat_chunk_idx' = idat_idx
                /\ chunk_idx' = chunk_idx + 1
                /\ IF chunk_type = IEND_TYPE
                   THEN /\ tell' = 0
                        /\ heap' = combined.heap
                        /\ chunks' = combined.chunks
                        /\ pc' = "chunks_returned"
                   ELSE /\ tell' = at_data + chunk_length + 4
                        /\ heap' = Append(heap, created)
                        /\ chunks' = appended
                        /\ pc' = "chunker"
    /\ UNCHANGED <<data_buffer, damaged, pipeline_vars, kernel_vars,
                   decoder_vars, encoder_vars,
                   reconstructor_vars>>

NextChunker == ChunkerStep

SpecChunker == InitChunker /\ [][NextChunker]_vars

(***************************************************************************)
(* PNGDecoder.__init__: the file is read and its signature compared, the   *)
(* IHDR fields are taken from the first 21 bytes and validated, the chunks *)
(* are parsed, and the Reconstructor is created.                           *)
(***************************************************************************)
PNG_SIGNATURE == <<137, 80, 78, 71, 13, 10, 26, 10>>

Signatures == {PNG_SIGNATURE, <<137, 80, 78, 71, 13, 10, 26, 11>>}

IHDRData(w, h, bit_depth, colour_type, compression_method, filter_method, interlace_method) ==
    [width |-> w, height |-> h, bit_depth |-> bit_depth,
     colour_type |-> colour_type, compression_method |-> compression_method,
     filter_method |-> filter_method, interlace_method |-> interlace_method]

\* IHDRData.__bytes__: struct.pack(">IIBBBBB", *self).
IHDRData_bytes(d) ==
    PackU32(d.width) \o PackU32(d.height)
      \o <<d.bit_depth, d.colour_type, d.compression_method, d.filter_method,
           d.interlace_method>>

\* IHDRData.from_bytes for 13 bytes of data.
IHDRData_from_bytes(data) ==
    IHDRData(UnpackU32(SubSeq(data, 1, 4)), UnpackU32(SubSeq(data, 5, 8)),
             data[9], data[10], data[11], data[12], data[13])

\* Headers of a 1 x 1 image, each of the five constrained fields at the
\* supported value or at another one.
Headers ==
    { IHDRData(1, 1, bd, ct, cm, fm, im) :
        bd \in {8, 16}, ct \in {6, 2}, cm \in {0, 1}, fm \in {0, 1},
        im \in {0, 1} }

DecoderRuns ==
    { <<>>, <<Plan(IDAT_TYPE, <<120>>)>>,
      <<Plan(IDAT_TYPE, <<120>>), Plan(IDAT_TYPE, <<99, 1>>)>> }

DecoderStreams ==
    { <<Plan(IHDR_TYPE, IHDRData_bytes(h))>> \o run \o tail :
        h \in Headers, run \in DecoderRuns,
        tail \in { <<>>, <<Plan(IEND_TYPE, <<>>)>> } }

InitDecoder ==
    /\ pc = "decoder"
    /\ \E sig \in Signatures, plans \in DecoderStreams :
          \E dmg \in Damages(plans) :
             /\ file = sig \o Serialize(plans, dmg, 1)
             /\ damaged = dmg
    /\ data_buffer = <<>>
    /\ tell = 0
    /\ heap = <<>>
    /\ chunks = <<>>
    /\ chunk_idx = 0
    /\ idat_chunk_idx = NoIndex
    /\ ihdr = NoHeader
    /\ png_reconstructor = <<>>
    /\ PipelineIdle
    /\ KernelIdle
    /\ EncoderIdle
    /\ ReconstructorIdle

\* _read_from_file: the signature is compared and the rest of the file is
\* written to data_buffer, which is left at position 0.
ReadFromFile ==
    /\ pc = "decoder"
    /\ IF Read(file, 0, 8) = PNG_SIGNATURE
       THEN /\ data_buffer' = Read(file, 8, Len(file))
            /\ pc' = "read"
       ELSE /\ pc' = "signature_error"
            /\ UNCHANGED data_buffer
    /\ tell' = 0
    /\ UNCHANGED <<heap, chunks, chunk_idx, idat_chunk_idx, damaged,
                   decoder_vars, pipeline_vars, kernel_vars, encoder_vars,
                   reconstructor_vars>>

\* _extract_IHDR: the first 21 bytes of the buffer, split at 4 and 8.
ExtractIHDR ==
    /\ pc = "read"
    /\ LET ihdr_bytes == Read(data_buffer, 0, 21)
       IN  ihdr' = [length |-> UnpackU32(SubSeq(ihdr_bytes, 1, 4)),
                    chunk_type |-> SubSeq(ihdr_bytes, 5, 8),
                    chunk_data |-> SubSeq(ihdr_bytes, 9, 21)]
    /\ tell' = 0
    /\ pc' = "extracted"
    /\ UNCHANGED <<data_buffer, heap, chunks, chunk_idx, idat_chunk_idx,
                   damaged, file, png_reconstructor, pipeline_vars,
                   kernel_vars, encoder_vars,
                   reconstructor_vars>>

\* _validate_IHDR without its test of colour_type.
validate_IHDR_any_colour_type(d) ==
    /\ d.compression_method = 0
    /\ d.filter_method = 0
    /\ d.bit_depth = 8
    /\ d.interlace_method = 0

\* _validate_IHDR: TRUE when it returns, FALSE when it raises ValueError.
validate_IHDR(d) ==
    /\ d.compression_method = 0
    /\ d.filter_method = 0
    /\ d.colour_type = 6
    /\ d.bit_depth = 8
    /\ d.interlace_method = 0

\* _validate_IHDR and, when it returns, self.idat_chunk_idx = None.
ValidateIHDR ==
    /\ pc = "extracted"
    /\ pc' = IF validate_IHDR(IHDRData_from_bytes(ihdr.chunk_data))
             THEN "chunker" ELSE "header_error"
    /\ idat_chunk_idx' = NoIndex
    /\ UNCHANGED <<data_buffer, tell, heap, chunks, chunk_idx, damaged,
                   decoder_vars, pipeline_vars, kernel_vars, encoder_vars,
                   reconstructor_vars>>

\* Reconstructor(width, height), then self.idat = self.chunks[2].
CreateReconstructor ==
    /\ pc = "chunks_returned"
    /\ LET d == IHDRData_from_bytes(ihdr.chunk_data)
       IN  png_reconstructor' = <<d.width, d.height>>
    /\ pc' = IF Len(chunks) > 2 THEN "decoded" ELSE "index_error"
    /\ UNCHANGED <<chunk_vars, file, ihdr, pipeline_vars, kernel_vars,
                   encoder_vars,
                   reconstructor_vars>>

NextDecoder ==
    ReadFromFile \/ ExtractIHDR \/ ValidateIHDR \/ ChunkerStep
        \/ CreateReconstructor

SpecDecoder == InitDecoder /\ [][NextDecoder]_vars

(***************************************************************************)
(* PNGEncoder: filter selection (best_filters), filtering and the split of *)
(* the compressed stream into IDAT chunks.                                 *)
(***************************************************************************)
MaxEncRows == 5

EncoderPalette == Palette \o << <<50, 75, 100, 125>> >>

EncoderSeeds == 0 .. 4

\* raw_source for a w x h image, a list of RGBA tuples.
pixels(w, h, seed, rowstep) ==
    [i \in 1 .. (w * h) |->
        LET r == (i - 1) \div w
            p == (i - 1) % w
        IN  EncoderPalette[((seed + r * rowstep + p) % Len(EncoderPalette)) + 1]]

\* bytearray.extend over a list of tuples: the tuples' items in order.
RECURSIVE extend(_, _)
extend(arr, tuples) ==
    IF tuples = <<>> THEN arr
    ELSE extend(arr \o Head(tuples), Tail(tuples))

\* PNGEncoder.source_to_byte_array
source_to_byte_array(raw) == extend(<<>>, raw)

\* I8(val): the low byte of val read as a signed 8-bit number.
I8(val) ==
    LET i == val % 256
    IN  IF i > 127 THEN (i % 128) - 128 ELSE i

\* source_data[i : j], Python's slice of a list.
Slice(list, i, j) ==
    SubSeq(list, i + 1, IF j <= Len(list) THEN j ELSE Len(list))

\* gen_lines: what line_bytes holds at each yield, for
\* i in range(0, len(source_data), width).
gen_lines(wd, source) ==
    [n \in 1 .. ((Len(source) + wd - 1) \div wd) |->
        extend(<<>>, Slice(source, (n - 1) * wd, n * wd))]

\* The loop of gen_line_pairs.  Every line gen_lines yields is the one
\* bytearray line_bytes, cleared and refilled between yields: line_buf holds
\* references, and a pair is read when it is yielded, when line_bytes holds
\* line n.
RECURSIVE line_pairs_loop(_, _, _, _)
line_pairs_loop(lines, n, line_buf, strd) ==
    IF n > Len(lines) THEN <<>>
    ELSE LET added == Append(line_buf, "line_bytes")
             kept == IF Len(added) > 2 THEN Tail(added) ELSE added
             read(ref) == IF ref = "zeros" THEN [j \in 1 .. strd |-> 0]
                          ELSE lines[n]
         IN  << [j \in 1 .. Len(kept) |-> read(kept[j])] >>
               \o line_pairs_loop(lines, n + 1, kept, strd)

gen_line_pairs(wd, strd, source) ==
    line_pairs_loop(gen_lines(wd, source), 1, <<"zeros">>, strd)

\* The while loop of consume_lines.
RECURSIVE consume_loop(_, _, _, _)
consume_loop(scan_src, filtered_data, strd, filter_func) ==
    LET next_square == next_filter_square(scan_src, filtered_data, strd, 4)
    IN  IF next_square = None THEN filtered_data
        ELSE consume_loop(scan_src,
                          Append(filtered_data,
                                 Mask8(Call(filter_func, next_square))),
                          strd, filter_func)

\* consume_lines: the filtered scanlines it yields, tag first.
consume_lines(wd, strd, source, filter_func, fb) ==
    LET pairs == gen_line_pairs(wd, strd, source)
    IN  [n \in 1 .. Len(pairs) |->
           LET scan_src == pairs[n][1] \o pairs[n][2]
               start == <<0>> \o [j \in 1 .. strd |-> 0] \o <<fb>>
               filtered_data == consume_loop(scan_src, start, strd, filter_func)
           IN  SubSeq(filtered_data, strd + 2, Len(filtered_data))]

RECURSIVE line_score(_, _)
line_score(line, i) ==
    IF i > Len(line) THEN 0
    ELSE (IF i = 1 THEN 0 ELSE Abs(I8(line[i]))) + line_score(line, i + 1)

\* PNGEncoder.minumum_sum_of_absolute_differences
minumum_sum_of_absolute_differences(filtered_data, strd) ==
    LET filter_stride == strd + 1
    IN  [n \in 1 .. ((Len(filtered_data) + filter_stride - 1) \div filter_stride) |->
           line_score(Slice(filtered_data, (n - 1) * filter_stride,
                            n * filter_stride), 1)]

\* gen_lines taking its lines off the list it is handed.
gen_lines_pops(wd, source) == <<>>

\* The list gen_lines is handed, as a run of the generator leaves it:
\* gen_lines reads it through slices, source_data[i:i+width], and writes to
\* its own line_bytes only.
gen_lines_leaves(wd, source) == source

\* PNGEncoder.calculate_filter_score, self_raw_source being self.raw_source
\* as the call finds it.
calculate_filter_score(self_raw_source, filter_func, fb) ==
    minumum_sum_of_absolute_differences(
        extend(<<>>, consume_lines(width, stride, self_raw_source, filter_func, fb)),
        stride)

\* The five calls of calculate_filter_score in filter_scores, in the order
\* None, Sub, Up, Average, Paeth, each on self.raw_source as the call before
\* it left it: the lists they return and self.raw_source after the last.
RECURSIVE filter_scores_calls(_, _, _)
filter_scores_calls(self_raw_source, k, lists) ==
    IF k > 4 THEN [lists |-> lists, raw_source |-> self_raw_source]
    ELSE filter_scores_calls(
             gen_lines_leaves(width, self_raw_source), k + 1,
             Append(lists, calculate_filter_score(self_raw_source,
                                                  select_filter_func(k), k)))

\* [*zip(...)]: as many tuples as the shortest list has items.
zip(lists) ==
    LET shortest == CHOOSE n \in {Len(lists[k]) : k \in 1 .. Len(lists)} :
                        \A k \in 1 .. Len(lists) : n <= Len(lists[k])
    IN  [n \in 1 .. shortest |-> [k \in 1 .. Len(lists) |-> lists[k][n]]]

\* PNGEncoder.filter_scores: per row, the five scores in the order None,
\* Sub, Up, Average, Paeth.
filter_scores == zip(filter_scores_calls(raw_source, 0, <<>>).lists)

\* min(score)
Minimum(score) ==
    CHOOSE m \in {score[k] : k \in 1 .. Len(score)} :
        \A k \in 1 .. Len(score) : m <= score[k]

\* list.index(value): the first position that holds value, from 0.
index(list, value) ==
    (CHOOSE k \in 1 .. Len(list) :
        /\ list[k] = value
        /\ \A j \in 1 .. (k - 1) : list[j] # value) - 1

\* The last position of the minimum instead of the first.
index_of_min_last(score) ==
    (CHOOSE k \in 1 .. Len(score) :
        /\ score[k] = Minimum(score)
        /\ \A j \in (k + 1) .. Len(score) : score[j] # Minimum(score)) - 1

\* score.index(min(score))
index_of_min(score) == index(score, Minimum(score))

\* PNGEncoder.best_filters
best_filters ==
    LET scores == filter_scores
    IN  [n \in 1 .. Len(scores) |-> index_of_min(scores[n])]

\* self.raw_source when best_filters has returned.
best_filters_leaves == filter_scores_calls(raw_source, 0, <<>>).raw_source

\* The neighbour window of byte (r, col) at encode time: x and its
\* neighbours read from the raw source, a one pixel to the left, b directly
\* above, c above and one pixel to the left, 0 where there is none.
Transformer_square(sdata, strd, bpp, r, col) ==
    Square(At(sdata, r * strd + col),
           IF col >= bpp THEN At(sdata, r * strd + col - bpp) ELSE 0,
           IF r >= 1 THEN At(sdata, (r - 1) * strd + col) ELSE 0,
           IF r >= 1 /\ col >= bpp
             THEN At(sdata, (r - 1) * strd + col - bpp) ELSE 0)

\* Transformer.filter(source_data, filter_bytes, stride, bytes_per_pixel),
\* the forward transform: for each row its tag, taken from filter_bytes in
\* turn, and its stride bytes, each the tag's filter applied to the byte's
\* window and masked to a byte.
Transformer_filter(sdata, fbytes, strd, bpp) ==
    extend(<<>>,
           [n \in 1 .. (Len(sdata) \div strd) |->
               LET fb == At(fbytes, (n - 1) % Len(fbytes))
               IN  <<fb>> \o
                   [j \in 1 .. strd |->
                       Mask8(Call(select_filter_func(fb),
                                  Transformer_square(sdata, strd, bpp,
                                                     n - 1, j - 1)))]])

\* zlib.compress at its default level, as a table: each pair holds a buffer
\* and the stream zlib.compress returns for it.  The table has the filtered
\* buffers apply_filtering returns for the images of this model; DEFLATE
\* itself is not computed.
ZlibTable ==
    {
       << <<0, 0, 0, 255, 255>>,
         <<120, 156, 99, 96, 96, 248, 255, 31, 0, 3, 2, 1, 255>> >>,
       << <<0, 0, 255, 0, 255>>,
         <<120, 156, 99, 96, 248, 207, 240, 31, 0, 4, 1, 1, 255>> >>,
       << <<0, 50, 75, 100, 125>>,
         <<120, 156, 99, 48, 242, 78, 169, 5, 0, 2, 243, 1, 95>> >>,
       << <<0, 100, 150, 200, 250>>,
         <<120, 156, 99, 72, 153, 118, 226, 23, 0, 5, 225, 2, 189>> >>,
       << <<0, 255, 0, 0, 255>>,
         <<120, 156, 99, 248, 207, 192, 240, 31, 0, 5, 0, 1, 255>> >>,
       << <<0, 0, 255, 0, 255, 0, 0, 255, 255>>,
         <<120, 156, 99, 96, 248, 15, 132, 12, 255, 255, 3, 0, 14, 250, 3, 253>> >>,
       << <<0, 50, 75, 100, 125, 255, 0, 0, 255>>,
         <<120, 156, 99, 48, 242, 78, 169, 253, 207, 192, 240, 31, 0, 13, 106, 3, 93>> >>,
       << <<0, 255, 0, 0, 255, 0, 255, 0, 255>>,
         <<120, 156, 99, 248, 207, 192, 240, 31, 4, 1, 16, 248, 3, 253>> >>,
       << <<1, 0, 0, 255, 255, 100, 150, 201, 251>>,
         <<120, 156, 99, 100, 96, 248, 255, 63, 101, 218, 201, 223, 0, 16, 230, 4, 190>> >>,
       << <<3, 100, 150, 200, 250, 0, 0, 0, 0>>,
         <<120, 156, 99, 78, 153, 118, 226, 23, 3, 16, 0, 0, 16, 240, 2, 192>> >>,
       << <<0, 0, 0, 255, 255, 0, 0, 0, 255, 255>>,
         <<120, 156, 99, 96, 96, 248, 255, 159, 1, 68, 0, 0, 15, 250, 3, 253>> >>,
       << <<0, 0, 0, 255, 255, 0, 100, 150, 200, 250>>,
         <<120, 156, 99, 96, 96, 248, 255, 159, 33, 101, 218, 137, 95, 0, 18, 217, 4, 187>> >>,
       << <<0, 0, 255, 0, 255, 0, 0, 0, 255, 255>>,
         <<120, 156, 99, 96, 248, 15, 132, 12, 12, 255, 255, 3, 0, 16, 249, 3, 253>> >>,
       << <<0, 0, 255, 0, 255, 0, 0, 255, 0, 255>>,
         <<120, 156, 99, 96, 248, 15, 132, 32, 2, 0, 17, 248, 3, 253>> >>,
       << <<0, 50, 75, 100, 125, 0, 50, 75, 100, 125>>,
         <<120, 156, 99, 48, 242, 78, 169, 101, 0, 17, 0, 12, 188, 2, 189>> >>,
       << <<0, 50, 75, 100, 125, 0, 255, 0, 0, 255>>,
         <<120, 156, 99, 48, 242, 78, 169, 101, 248, 207, 192, 240, 31, 0, 14, 201, 3, 93>> >>,
       << <<0, 100, 150, 200, 250, 0, 50, 75, 100, 125>>,
         <<120, 156, 99, 72, 153, 118, 226, 23, 131, 145, 119, 74, 45, 0, 22, 128, 4, 27>> >>,
       << <<0, 100, 150, 200, 250, 0, 100, 150, 200, 250>>,
         <<120, 156, 99, 72, 153, 118, 226, 23, 3, 136, 0, 0, 25, 110, 5, 121>> >>,
       << <<0, 255, 0, 0, 255, 0, 0, 255, 0, 255>>,
         <<120, 156, 99, 248, 207, 192, 0, 70, 255, 1, 18, 247, 3, 253>> >>,
       << <<0, 255, 0, 0, 255, 0, 255, 0, 0, 255>>,
         <<120, 156, 99, 248, 207, 192, 240, 159, 1, 68, 0, 0, 19, 246, 3, 253>> >>,
       << <<0, 0, 0, 255, 255, 0, 0, 0, 255, 255, 0, 0, 0, 255, 255>>,
         <<120, 156, 99, 96, 96, 248, 255, 159, 1, 78, 0, 0, 38, 232, 5, 251>> >>,
       << <<0, 0, 0, 255, 255, 0, 100, 150, 200, 250, 0, 50, 75, 100, 125>>,
         <<120, 156, 99, 96, 96, 248, 255, 159, 33, 101, 218, 137, 95, 12, 70, 222, 41, 181, 0, 45, 110, 6, 25>> >>,
       << <<0, 0, 255, 0, 255, 0, 0, 0, 255, 255, 0, 100, 150, 200, 250>>,
         <<120, 156, 99, 96, 248, 15, 132, 12, 12, 255, 255, 51, 164, 76, 59, 241, 11, 0, 42, 198, 6, 185>> >>,
       << <<0, 0, 255, 0, 255, 0, 0, 255, 0, 255, 0, 0, 255, 0, 255>>,
         <<120, 156, 99, 96, 248, 15, 132, 112, 2, 0, 41, 229, 5, 251>> >>,
       << <<0, 50, 75, 100, 125, 0, 50, 75, 100, 125, 0, 50, 75, 100, 125>>,
         <<120, 156, 99, 48, 242, 78, 169, 101, 128, 19, 0, 29, 91, 4, 27>> >>,
       << <<0, 50, 75, 100, 125, 0, 255, 0, 0, 255, 0, 0, 255, 0, 255>>,
         <<120, 156, 99, 48, 242, 78, 169, 101, 248, 207, 0, 65, 255, 1, 35, 150, 5, 91>> >>,
       << <<0, 100, 150, 200, 250, 0, 50, 75, 100, 125, 0, 255, 0, 0, 255>>,
         <<120, 156, 99, 72, 153, 118, 226, 23, 131, 145, 119, 74, 45, 195, 127, 6, 134, 255, 0, 48, 2, 6, 25>> >>,
       << <<0, 100, 150, 200, 250, 0, 100, 150, 200, 250, 0, 100, 150, 200, 250>>,
         <<120, 156, 99, 72, 153, 118, 226, 23, 3, 156, 0, 0, 58, 167, 8, 53>> >>,
       << <<0, 255, 0, 0, 255, 0, 0, 255, 0, 255, 0, 0, 0, 255, 255>>,
         <<120, 156, 99, 248, 207, 192, 0, 70, 64, 130, 225, 255, 127, 0, 41, 229, 5, 251>> >>,
       << <<0, 255, 0, 0, 255, 0, 255, 0, 0, 255, 0, 255, 0, 0, 255>>,
         <<120, 156, 99, 248, 207, 192, 240, 159, 1, 78, 0, 0, 44, 226, 5, 251>> >>,
       << <<0, 0, 255, 0, 255, 0, 0, 255, 255, 0, 0, 255, 0, 255, 0, 0, 255, 255>>,
         <<120, 156, 99, 96, 248, 15, 132, 12, 255, 65, 24, 194, 0, 0, 65, 208, 7, 249>> >>,
       << <<0, 0, 255, 0, 255, 0, 0, 255, 255, 1, 0, 0, 255, 255, 100, 150, 201, 251>>,
         <<120, 156, 99, 96, 248, 15, 132, 12, 255, 255, 51, 130, 136, 148, 105, 39, 127, 3, 0, 67, 188, 8, 186>> >>,
       << <<0, 50, 75, 100, 125, 255, 0, 0, 255, 0, 50, 75, 100, 125, 255, 0, 0, 255>>,
         <<120, 156, 99, 48, 242, 78, 169, 253, 207, 192, 240, 159, 1, 198, 0, 0, 57, 16, 6, 185>> >>,
       << <<0, 50, 75, 100, 125, 255, 0, 0, 255, 0, 255, 0, 0, 255, 0, 255, 0, 255>>,
         <<120, 156, 99, 48, 242, 78, 169, 253, 207, 192, 240, 159, 1, 74, 252, 7, 0, 60, 158, 7, 89>> >>,
       << <<0, 255, 0, 0, 255, 0, 255, 0, 255, 0, 0, 255, 0, 255, 0, 0, 255, 255>>,
         <<120, 156, 99, 248, 207, 192, 240, 31, 12, 161, 196, 127, 0, 67, 206, 7, 249>> >>,
       << <<0, 255, 0, 0, 255, 0, 255, 0, 255, 0, 255, 0, 0, 255, 0, 255, 0, 255>>,
         <<120, 156, 99, 248, 207, 192, 240, 31, 10, 33, 20, 0, 69, 204, 7, 249>> >>,
       << <<1, 0, 0, 255, 255, 100, 150, 201, 251, 1, 0, 0, 255, 255, 100, 150, 201, 251>>,
         <<120, 156, 99, 100, 96, 248, 255, 63, 101, 218, 201, 223, 140, 48, 6, 0, 76, 113, 9, 123>> >>,
       << <<1, 0, 0, 255, 255, 100, 150, 201, 251, 3, 100, 150, 73, 123, 206, 181, 156, 131>>,
         <<120, 156, 99, 100, 96, 248, 255, 63, 101, 218, 201, 223, 204, 41, 211, 60, 171, 207, 109, 157, 211, 12, 0, 78, 24, 9, 33>> >>,
       << <<3, 100, 150, 200, 250, 0, 0, 0, 0, 0, 50, 75, 100, 125, 255, 0, 0, 255>>,
         <<120, 156, 99, 78, 153, 118, 226, 23, 3, 8, 24, 121, 167, 212, 254, 103, 96, 248, 15, 0, 55, 17, 6, 28>> >>,
       << <<3, 100, 150, 200, 250, 0, 0, 0, 0, 3, 50, 75, 100, 125, 231, 219, 206, 194>>,
         <<120, 156, 99, 78, 153, 118, 226, 23, 3, 16, 48, 27, 121, 167, 212, 62, 191, 125, 238, 16, 0, 58, 188, 7, 115>> >>,
       << <<0, 0, 0, 255, 255, 0, 0, 0, 255, 255, 0, 0, 0, 255, 255, 0, 0, 0, 255, 255>>,
         <<120, 156, 99, 96, 96, 248, 255, 159, 1, 149, 0, 0, 71, 204, 7, 249>> >>,
       << <<0, 0, 0, 255, 255, 0, 100, 150, 200, 250, 0, 50, 75, 100, 125, 0, 255, 0, 0, 255>>,
         <<120, 156, 99, 96, 96, 248, 255, 159, 33, 101, 218, 137, 95, 12, 70, 222, 41, 181, 12, 255, 129, 124, 0, 80, 230, 8, 23>> >>,
       << <<0, 0, 255, 0, 255, 0, 0, 0, 255, 255, 0, 100, 150, 200, 250, 0, 50, 75, 100, 125>>,
         <<120, 156, 99, 96, 248, 15, 132, 12, 12, 255, 255, 51, 164, 76, 59, 241, 139, 193, 200, 59, 165, 22, 0, 79, 81, 8, 23>> >>,
       << <<0, 0, 255, 0, 255, 0, 0, 255, 0, 255, 0, 0, 255, 0, 255, 0, 0, 255, 0, 255>>,
         <<120, 156, 99, 96, 248, 15, 132, 168, 4, 0, 75, 200, 7, 249>> >>,
       << <<0, 50, 75, 100, 125, 0, 50, 75, 100, 125, 0, 50, 75, 100, 125, 0, 50, 75, 100, 125>>,
         <<120, 156, 99, 48, 242, 78, 169, 101, 64, 37, 0, 52, 208, 5, 121>> >>,
       << <<0, 50, 75, 100, 125, 0, 255, 0, 0, 255, 0, 0, 255, 0, 255, 0, 0, 0, 255, 255>>,
         <<120, 156, 99, 48, 242, 78, 169, 101, 248, 207, 0, 65, 64, 130, 225, 255, 127, 0, 65, 90, 7, 89>> >>,
       << <<0, 100, 150, 200, 250, 0, 50, 75, 100, 125, 0, 255, 0, 0, 255, 0, 0, 255, 0, 255>>,
         <<120, 156, 99, 72, 153, 118, 226, 23, 131, 145, 119, 74, 45, 195, 127, 6, 8, 250, 15, 0, 82, 123, 8, 23>> >>,
       << <<0, 100, 150, 200, 250, 0, 100, 150, 200, 250, 0, 100, 150, 200, 250, 0, 100, 150, 200, 250>>,
         <<120, 156, 99, 72, 153, 118, 226, 23, 3, 42, 1, 0, 105, 140, 10, 241>> >>,
       << <<0, 255, 0, 0, 255, 0, 0, 255, 0, 255, 0, 0, 0, 255, 255, 0, 100, 150, 200, 250>>,
         <<120, 156, 99, 248, 207, 192, 0, 70, 64, 130, 225, 255, 127, 134, 148, 105, 39, 126, 1, 0, 77, 168, 8, 183>> >>,
       << <<0, 255, 0, 0, 255, 0, 255, 0, 0, 255, 0, 255, 0, 0, 255, 0, 255, 0, 0, 255>>,
         <<120, 156, 99, 248, 207, 192, 240, 159, 1, 149, 0, 0, 79, 196, 7, 249>> >>,
       << <<0, 0, 0, 255, 255, 0, 0, 0, 255, 255, 0, 0, 0, 255, 255, 0, 0, 0, 255, 255, 0, 0, 0, 255, 255>>,
         <<120, 156, 99, 96, 96, 248, 255, 159, 1, 11, 1, 0, 114, 166, 9, 247>> >>,
       << <<0, 0, 0, 255, 255, 0, 100, 150, 200, 250, 0, 50, 75, 100, 125, 0, 255, 0, 0, 255, 0, 0, 255, 0, 255>>,
         <<120, 156, 99, 96, 96, 248, 255, 159, 33, 101, 218, 137, 95, 12, 70, 222, 41, 181, 12, 255, 25, 32, 232, 63, 0, 125, 85, 10, 21>> >>,
       << <<0, 0, 255, 0, 255, 0, 0, 0, 255, 255, 0, 100, 150, 200, 250, 0, 50, 75, 100, 125, 0, 255, 0, 0, 255>>,
         <<120, 156, 99, 96, 248, 15, 132, 12, 12, 255, 255, 51, 164, 76, 59, 241, 139, 193, 200, 59, 165, 22, 36, 240, 31, 0, 124, 191, 10, 21>> >>,
       << <<0, 0, 255, 0, 255, 0, 0, 255, 0, 255, 0, 0, 255, 0, 255, 0, 0, 255, 0, 255, 0, 0, 255, 0, 255>>,
         <<120, 156, 99, 96, 248, 15, 132, 88, 8, 0, 119, 161, 9, 247>> >>,
       << <<0, 50, 75, 100, 125, 0, 50, 75, 100, 125, 0, 50, 75, 100, 125, 0, 50, 75, 100, 125, 0, 50, 75, 100, 125>>,
         <<120, 156, 99, 48, 242, 78, 169, 101, 192, 66, 0, 0, 83, 27, 6, 215>> >>,
       << <<0, 50, 75, 100, 125, 0, 255, 0, 0, 255, 0, 0, 255, 0, 255, 0, 0, 0, 255, 255, 0, 100, 150, 200, 250>>,
         <<120, 156, 99, 48, 242, 78, 169, 101, 248, 207, 0, 65, 64, 130, 225, 255, 127, 134, 148, 105, 39, 126, 1, 0, 107, 243, 10, 21>> >>,
       << <<0, 100, 150, 200, 250, 0, 50, 75, 100, 125, 0, 255, 0, 0, 255, 0, 0, 255, 0, 255, 0, 0, 0, 255, 255>>,
         <<120, 156, 99, 72, 153, 118, 226, 23, 131, 145, 119, 74, 45, 195, 127, 6, 8, 2, 18, 12, 255, 255, 3, 0, 125, 235, 10, 21>> >>,
       << <<0, 100, 150, 200, 250, 0, 100, 150, 200, 250, 0, 100, 150, 200, 250, 0, 100, 150, 200, 250, 0, 100, 150, 200, 250>>,
         <<120, 156, 99, 72, 153, 118, 226, 23, 3, 22, 2, 0, 166, 29, 13, 173>> >>,
       << <<0, 255, 0, 0, 255, 0, 0, 255, 0, 255, 0, 0, 0, 255, 255, 0, 100, 150, 200, 250, 0, 50, 75, 100, 125>>,
         <<120, 156, 99, 248, 207, 192, 0, 70, 64, 130, 225, 255, 127, 134, 148, 105, 39, 126, 49, 24, 121, 167, 212, 2, 0, 124, 41, 10, 21>> >>,
       << <<0, 255, 0, 0, 255, 0, 255, 0, 0, 255, 0, 255, 0, 0, 255, 0, 255, 0, 0, 255, 0, 255, 0, 0, 255>>,
         <<120, 156, 99, 248, 207, 192, 240, 159, 1, 11, 1, 0, 124, 156, 9, 247>> >>,
       << <<0, 0, 255, 0, 255, 0, 0, 255, 255, 0, 0, 255, 0, 255, 0, 0, 255, 255, 0, 0, 255, 0, 255, 0, 0, 255, 255>>,
         <<120, 156, 99, 96, 248, 15, 132, 12, 255, 65, 24, 141, 1, 0, 152, 130, 11, 245>> >>,
       << <<0, 0, 255, 0, 255, 0, 0, 255, 255, 1, 0, 0, 255, 255, 100, 150, 201, 251, 3, 100, 150, 73, 123, 206, 181, 156, 131>>,
         <<120, 156, 99, 96, 248, 15, 132, 12, 255, 255, 51, 130, 136, 148, 105, 39, 127, 51, 167, 76, 243, 172, 62, 183, 117, 78, 51, 0, 164, 202, 13, 29>> >>,
       << <<0, 50, 75, 100, 125, 255, 0, 0, 255, 0, 50, 75, 100, 125, 255, 0, 0, 255, 0, 50, 75, 100, 125, 255, 0, 0, 255>>,
         <<120, 156, 99, 48, 242, 78, 169, 253, 207, 192, 240, 159, 1, 131, 1, 0, 130, 242, 10, 21>> >>,
       << <<0, 50, 75, 100, 125, 255, 0, 0, 255, 0, 255, 0, 0, 255, 0, 255, 0, 255, 0, 0, 255, 0, 255, 0, 0, 255, 255>>,
         <<120, 156, 99, 48, 242, 78, 169, 253, 207, 192, 240, 159, 1, 74, 192, 217, 255, 1, 141, 176, 11, 85>> >>,
       << <<0, 255, 0, 0, 255, 0, 255, 0, 255, 0, 0, 255, 0, 255, 0, 0, 255, 255, 1, 0, 0, 255, 255, 100, 150, 201, 251>>,
         <<120, 156, 99, 248, 207, 192, 240, 31, 12, 161, 196, 127, 70, 16, 145, 50, 237, 228, 111, 0, 156, 108, 12, 182>> >>,
       << <<0, 255, 0, 0, 255, 0, 255, 0, 255, 0, 255, 0, 0, 255, 0, 255, 0, 255, 0, 255, 0, 0, 255, 0, 255, 0, 255>>,
         <<120, 156, 99, 248, 207, 192, 240, 31, 10, 209, 24, 0, 158, 124, 11, 245>> >>,
       << <<1, 0, 0, 255, 255, 100, 150, 201, 251, 1, 0, 0, 255, 255, 100, 150, 201, 251, 1, 0, 0, 255, 255, 100, 150, 201, 251>>,
         <<120, 156, 99, 100, 96, 248, 255, 63, 101, 218, 201, 223, 140, 24, 12, 0, 178, 161, 14, 56>> >>,
       << <<1, 0, 0, 255, 255, 100, 150, 201, 251, 3, 100, 150, 73, 123, 206, 181, 156, 131, 0, 50, 75, 100, 125, 255, 0, 0, 255>>,
         <<120, 156, 99, 100, 96, 248, 255, 63, 101, 218, 201, 223, 204, 41, 211, 60, 171, 207, 109, 157, 211, 204, 96, 228, 157, 82, 251, 31, 40, 12, 0, 173, 162, 12, 125>> >>,
       << <<3, 100, 150, 200, 250, 0, 0, 0, 0, 0, 50, 75, 100, 125, 255, 0, 0, 255, 0, 255, 0, 0, 255, 0, 255, 0, 255>>,
         <<120, 156, 99, 78, 153, 118, 226, 23, 3, 8, 24, 121, 167, 212, 254, 103, 96, 248, 207, 0, 37, 254, 3, 0, 126, 252, 10, 24>> >>,
       << <<3, 100, 150, 200, 250, 0, 0, 0, 0, 3, 50, 75, 100, 125, 231, 219, 206, 194, 3, 50, 75, 100, 125, 231, 219, 206, 194>>,
         <<120, 156, 99, 78, 153, 118, 226, 23, 3, 16, 48, 27, 121, 167, 212, 62, 191, 125, 238, 16, 156, 1, 0, 142, 211, 12, 38>> >>,
       << <<0, 0, 0, 255, 255, 0, 0, 0, 255, 255, 0, 0, 0, 255, 255, 0, 0, 0, 255, 255, 0, 0, 0, 255, 255, 0, 0, 0, 255, 255>>,
         <<120, 156, 99, 96, 96, 248, 255, 159, 1, 23, 1, 0, 167, 118, 11, 245>> >>,
       << <<0, 0, 0, 255, 255, 0, 100, 150, 200, 250, 0, 50, 75, 100, 125, 0, 255, 0, 0, 255, 0, 0, 255, 0, 255, 0, 0, 0, 255, 255>>,
         <<120, 156, 99, 96, 96, 248, 255, 159, 33, 101, 218, 137, 95, 12, 70, 222, 41, 181, 12, 255, 25, 32, 8, 72, 0, 37, 0, 178, 187, 12, 19>> >>,
       << <<0, 0, 255, 0, 255, 0, 0, 0, 255, 255, 0, 100, 150, 200, 250, 0, 50, 75, 100, 125, 0, 255, 0, 0, 255, 0, 0, 255, 0, 255>>,
         <<120, 156, 99, 96, 248, 15, 132, 12, 12, 255, 255, 51, 164, 76, 59, 241, 139, 193, 200, 59, 165, 22, 36, 0, 70, 255, 1, 179, 36, 12, 19>> >>,
       << <<0, 0, 255, 0, 255, 0, 0, 255, 0, 255, 0, 0, 255, 0, 255, 0, 0, 255, 0, 255, 0, 0, 255, 0, 255, 0, 0, 255, 0, 255>>,
         <<120, 156, 99, 96, 248, 15, 132, 184, 8, 0, 173, 112, 11, 245>> >>,
       << <<0, 50, 75, 100, 125, 0, 50, 75, 100, 125, 0, 50, 75, 100, 125, 0, 50, 75, 100, 125, 0, 50, 75, 100, 125, 0, 50, 75, 100, 125>>,
         <<120, 156, 99, 48, 242, 78, 169, 101, 192, 69, 0, 0, 120, 60, 8, 53>> >>,
       << <<0, 50, 75, 100, 125, 0, 255, 0, 0, 255, 0, 0, 255, 0, 255, 0, 0, 0, 255, 255, 0, 100, 150, 200, 250, 0, 50, 75, 100, 125>>,
         <<120, 156, 99, 48, 242, 78, 169, 101, 248, 207, 0, 65, 64, 130, 225, 255, 127, 134, 148, 105, 39, 126, 49, 128, 36, 0, 161, 74, 11, 115>> >>,
       << <<0, 100, 150, 200, 250, 0, 50, 75, 100, 125, 0, 255, 0, 0, 255, 0, 0, 255, 0, 255, 0, 0, 0, 255, 255, 0, 100, 150, 200, 250>>,
         <<120, 156, 99, 72, 153, 118, 226, 23, 131, 145, 119, 74, 45, 195, 127, 6, 8, 2, 18, 12, 255, 255, 51, 128, 36, 0, 182, 48, 12, 209>> >>,
       << <<0, 100, 150, 200, 250, 0, 100, 150, 200, 250, 0, 100, 150, 200, 250, 0, 100, 150, 200, 250, 0, 100, 150, 200, 250, 0, 100, 150, 200, 250>>,
         <<120, 156, 99, 72, 153, 118, 226, 23, 3, 46, 2, 0, 240, 90, 16, 105>> >>,
       << <<0, 255, 0, 0, 255, 0, 0, 255, 0, 255, 0, 0, 0, 255, 255, 0, 100, 150, 200, 250, 0, 50, 75, 100, 125, 0, 255, 0, 0, 255>>,
         <<120, 156, 99, 248, 207, 192, 0, 70, 64, 130, 225, 255, 127, 134, 148, 105, 39, 126, 49, 24, 121, 167, 212, 130, 69, 1, 179, 141, 12, 19>> >>,
       << <<0, 255, 0, 0, 255, 0, 255, 0, 0, 255, 0, 255, 0, 0, 255, 0, 255, 0, 0, 255, 0, 255, 0, 0, 255, 0, 255, 0, 0, 255>>,
         <<120, 156, 99, 248, 207, 192, 240, 159, 1, 23, 1, 0, 179, 106, 11, 245>> >>,
       << <<0, 0, 255, 0, 255, 0, 0, 255, 255, 0, 0, 255, 0, 255, 0, 0, 255, 255, 0, 0, 255, 0, 255, 0, 0, 255, 255, 0, 0, 255, 0, 255, 0, 0, 255, 255>>,
         <<120, 156, 99, 96, 248, 15, 132, 12, 255, 65, 24, 23, 3, 0, 19, 31, 15, 241>> >>,
       << <<0, 0, 255, 0, 255, 0, 0, 255, 255, 1, 0, 0, 255, 255, 100, 150, 201, 251, 3, 100, 150, 73, 123, 206, 181, 156, 131, 0, 50, 75, 100, 125, 255, 0, 0, 255>>,
         <<120, 156, 99, 96, 248, 15, 132, 12, 255, 255, 51, 130, 136, 148, 105, 39, 127, 51, 167, 76, 243, 172, 62, 183, 117, 78, 51, 131, 145, 119, 74, 45, 72, 14, 0, 40, 63, 16, 121>> >>,
       << <<0, 50, 75, 100, 125, 255, 0, 0, 255, 0, 50, 75, 100, 125, 255, 0, 0, 255, 0, 50, 75, 100, 125, 255, 0, 0, 255, 0, 50, 75, 100, 125, 255, 0, 0, 255>>,
         <<120, 156, 99, 48, 242, 78, 169, 253, 207, 192, 240, 159, 1, 55, 3, 0, 235, 16, 13, 113>> >>,
       << <<0, 50, 75, 100, 125, 255, 0, 0, 255, 0, 255, 0, 0, 255, 0, 255, 0, 255, 0, 0, 255, 0, 255, 0, 0, 255, 255, 1, 0, 0, 255, 255, 100, 150, 201, 251>>,
         <<120, 156, 99, 48, 242, 78, 169, 253, 207, 192, 240, 159, 1, 74, 192, 217, 255, 25, 65, 68, 202, 180, 147, 191, 1, 4, 153, 16, 18>> >>,
       << <<0, 255, 0, 0, 255, 0, 255, 0, 255, 0, 0, 255, 0, 255, 0, 0, 255, 255, 1, 0, 0, 255, 255, 100, 150, 201, 251, 3, 100, 150, 73, 123, 206, 181, 156, 131>>,
         <<120, 156, 99, 248, 207, 192, 240, 31, 12, 161, 196, 127, 70, 16, 145, 50, 237, 228, 111, 230, 148, 105, 158, 213, 231, 182, 206, 105, 6, 0, 33, 101, 17, 25>> >>,
       << <<0, 255, 0, 0, 255, 0, 255, 0, 255, 0, 255, 0, 0, 255, 0, 255, 0, 255, 0, 255, 0, 0, 255, 0, 255, 0, 255, 0, 255, 0, 0, 255, 0, 255, 0, 255>>,
         <<120, 156, 99, 248, 207, 192, 240, 31, 10, 113, 49, 0, 27, 23, 15, 241>> >>,
       << <<1, 0, 0, 255, 255, 100, 150, 201, 251, 1, 0, 0, 255, 255, 100, 150, 201, 251, 1, 0, 0, 255, 255, 100, 150, 201, 251, 1, 0, 0, 255, 255, 100, 150, 201, 251>>,
         <<120, 156, 99, 100, 96, 248, 255, 63, 101, 218, 201, 223, 140, 184, 25, 0, 67, 133, 18, 245>> >>,
       << <<1, 0, 0, 255, 255, 100, 150, 201, 251, 3, 100, 150, 73, 123, 206, 181, 156, 131, 0, 50, 75, 100, 125, 255, 0, 0, 255, 0, 255, 0, 0, 255, 0, 255, 0, 255>>,
         <<120, 156, 99, 100, 96, 248, 255, 63, 101, 218, 201, 223, 204, 41, 211, 60, 171, 207, 109, 157, 211, 204, 96, 228, 157, 82, 251, 31, 40, 204, 0, 37, 254, 3, 0, 47, 5, 16, 121>> >>,
       << <<3, 100, 150, 200, 250, 0, 0, 0, 0, 0, 50, 75, 100, 125, 255, 0, 0, 255, 0, 255, 0, 0, 255, 0, 255, 0, 255, 0, 0, 255, 0, 255, 0, 0, 255, 255>>,
         <<120, 156, 99, 78, 153, 118, 226, 23, 3, 8, 24, 121, 167, 212, 254, 103, 96, 248, 207, 0, 37, 224, 236, 255, 0, 232, 197, 14, 20>> >>,
       << <<3, 100, 150, 200, 250, 0, 0, 0, 0, 3, 50, 75, 100, 125, 231, 219, 206, 194, 3, 50, 75, 100, 125, 231, 219, 206, 194, 3, 50, 75, 100, 125, 231, 219, 206, 194>>,
         <<120, 156, 99, 78, 153, 118, 226, 23, 3, 16, 48, 27, 121, 167, 212, 62, 191, 125, 238, 16, 38, 3, 0, 13, 68, 16, 217>> >>,
       << <<0, 0, 255, 0, 255, 0, 0, 255, 255, 0, 0, 255, 0, 255, 0, 0, 255, 255, 0, 0, 255, 0, 255, 0, 0, 255, 255, 0, 0, 255, 0, 255, 0, 0, 255, 255, 0, 0, 255, 0, 255, 0, 0, 255, 255>>,
         <<120, 156, 99, 96, 248, 15, 132, 12, 255, 65, 152, 32, 3, 0, 177, 137, 19, 237>> >>,
       << <<0, 0, 255, 0, 255, 0, 0, 255, 255, 1, 0, 0, 255, 255, 100, 150, 201, 251, 3, 100, 150, 73, 123, 206, 181, 156, 131, 0, 50, 75, 100, 125, 255, 0, 0, 255, 0, 255, 0, 0, 255, 0, 255, 0, 255>>,
         <<120, 156, 99, 96, 248, 15, 132, 12, 255, 255, 51, 130, 136, 148, 105, 39, 127, 51, 167, 76, 243, 172, 62, 183, 117, 78, 51, 131, 145, 119, 74, 45, 72, 142, 1, 74, 252, 7, 0, 205, 111, 20, 117>> >>,
       << <<0, 50, 75, 100, 125, 255, 0, 0, 255, 0, 50, 75, 100, 125, 255, 0, 0, 255, 0, 50, 75, 100, 125, 255, 0, 0, 255, 0, 50, 75, 100, 125, 255, 0, 0, 255, 0, 50, 75, 100, 125, 255, 0, 0, 255>>,
         <<120, 156, 99, 48, 242, 78, 169, 253, 207, 192, 240, 159, 129, 8, 6, 0, 113, 121, 16, 205>> >>,
       << <<0, 50, 75, 100, 125, 255, 0, 0, 255, 0, 255, 0, 0, 255, 0, 255, 0, 255, 0, 0, 255, 0, 255, 0, 0, 255, 255, 1, 0, 0, 255, 255, 100, 150, 201, 251, 3, 100, 150, 73, 123, 206, 181, 156, 131>>,
         <<120, 156, 99, 48, 242, 78, 169, 253, 207, 192, 240, 159, 1, 74, 192, 217, 255, 25, 65, 68, 202, 180, 147, 191, 153, 83, 166, 121, 86, 159, 219, 58, 167, 25, 0, 167, 191, 20, 117>> >>,
       << <<0, 255, 0, 0, 255, 0, 255, 0, 255, 0, 0, 255, 0, 255, 0, 0, 255, 255, 1, 0, 0, 255, 255, 100, 150, 201, 251, 3, 100, 150, 73, 123, 206, 181, 156, 131, 0, 50, 75, 100, 125, 255, 0, 0, 255>>,
         <<120, 156, 99, 248, 207, 192, 240, 31, 12, 161, 196, 127, 70, 16, 145, 50, 237, 228, 111, 230, 148, 105, 158, 213, 231, 182, 206, 105, 102, 48, 242, 78, 169, 5, 201, 1, 0, 200, 167, 20, 117>> >>,
       << <<0, 255, 0, 0, 255, 0, 255, 0, 255, 0, 255, 0, 0, 255, 0, 255, 0, 255, 0, 255, 0, 0, 255, 0, 255, 0, 255, 0, 255, 0, 0, 255, 0, 255, 0, 255, 0, 255, 0, 0, 255, 0, 255, 0, 255>>,
         <<120, 156, 99, 248, 207, 192, 240, 31, 10, 9, 50, 0, 187, 127, 19, 237>> >>,
       << <<1, 0, 0, 255, 255, 100, 150, 201, 251, 1, 0, 0, 255, 255, 100, 150, 201, 251, 1, 0, 0, 255, 255, 100, 150, 201, 251, 1, 0, 0, 255, 255, 100, 150, 201, 251, 1, 0, 0, 255, 255, 100, 150, 201, 251>>,
         <<120, 156, 99, 100, 96, 248, 255, 63, 101, 218, 201, 223, 140, 68, 48, 0, 254, 255, 23, 178>> >>,
       << <<1, 0, 0, 255, 255, 100, 150, 201, 251, 3, 100, 150, 73, 123, 206, 181, 156, 131, 0, 50, 75, 100, 125, 255, 0, 0, 255, 0, 255, 0, 0, 255, 0, 255, 0, 255, 0, 0, 255, 0, 255, 0, 0, 255, 255>>,
         <<120, 156, 99, 100, 96, 248, 255, 63, 101, 218, 201, 223, 204, 41, 211, 60, 171, 207, 109, 157, 211, 204, 96, 228, 157, 82, 251, 31, 40, 204, 0, 37, 224, 236, 255, 0, 210, 55, 20, 117>> >>,
       << <<3, 100, 150, 200, 250, 0, 0, 0, 0, 0, 50, 75, 100, 125, 255, 0, 0, 255, 0, 255, 0, 0, 255, 0, 255, 0, 255, 0, 0, 255, 0, 255, 0, 0, 255, 255, 1, 0, 0, 255, 255, 100, 150, 201, 251>>,
         <<120, 156, 99, 78, 153, 118, 226, 23, 3, 8, 24, 121, 167, 212, 254, 103, 96, 248, 207, 0, 37, 224, 236, 255, 140, 32, 34, 101, 218, 201, 223, 0, 120, 101, 18, 209>> >>,
       << <<3, 100, 150, 200, 250, 0, 0, 0, 0, 3, 50, 75, 100, 125, 231, 219, 206, 194, 3, 50, 75, 100, 125, 231, 219, 206, 194, 3, 50, 75, 100, 125, 231, 219, 206, 194, 3, 50, 75, 100, 125, 231, 219, 206, 194>>,
         <<120, 156, 99, 78, 153, 118, 226, 23, 3, 16, 48, 27, 121, 167, 212, 62, 191, 125, 238, 16, 30, 6, 0, 181, 241, 21, 140>> >>,
       << <<0, 0, 255, 0, 255, 0, 0, 255, 255, 0, 0, 255, 0, 255, 0, 0, 255, 255, 0, 0, 255, 0, 255, 0, 0, 255, 255, 0, 0, 255, 0, 255, 0, 0, 255, 255, 0, 0, 255, 0, 255, 0, 0, 255, 255, 0, 0, 255, 0, 255, 0, 0, 255, 255>>,
         <<120, 156, 99, 96, 248, 15, 132, 12, 255, 65, 152, 120, 6, 0, 115, 222, 23, 233>> >>,
       << <<0, 0, 255, 0, 255, 0, 0, 255, 255, 1, 0, 0, 255, 255, 100, 150, 201, 251, 3, 100, 150, 73, 123, 206, 181, 156, 131, 0, 50, 75, 100, 125, 255, 0, 0, 255, 0, 255, 0, 0, 255, 0, 255, 0, 255, 0, 0, 255, 0, 255, 0, 0, 255, 255>>,
         <<120, 156, 99, 96, 248, 15, 132, 12, 255, 255, 51, 130, 136, 148, 105, 39, 127, 51, 167, 76, 243, 172, 62, 183, 117, 78, 51, 131, 145, 119, 74, 45, 72, 142, 1, 74, 192, 217, 255, 1, 148, 140, 24, 113>> >>,
       << <<0, 50, 75, 100, 125, 255, 0, 0, 255, 0, 50, 75, 100, 125, 255, 0, 0, 255, 0, 50, 75, 100, 125, 255, 0, 0, 255, 0, 50, 75, 100, 125, 255, 0, 0, 255, 0, 50, 75, 100, 125, 255, 0, 0, 255, 0, 50, 75, 100, 125, 255, 0, 0, 255>>,
         <<120, 156, 99, 48, 242, 78, 169, 253, 207, 192, 240, 159, 129, 20, 6, 0, 22, 30, 20, 41>> >>,
       << <<0, 50, 75, 100, 125, 255, 0, 0, 255, 0, 255, 0, 0, 255, 0, 255, 0, 255, 0, 0, 255, 0, 255, 0, 0, 255, 255, 1, 0, 0, 255, 255, 100, 150, 201, 251, 3, 100, 150, 73, 123, 206, 181, 156, 131, 0, 50, 75, 100, 125, 255, 0, 0, 255>>,
         <<120, 156, 99, 48, 242, 78, 169, 253, 207, 192, 240, 159, 1, 74, 192, 217, 255, 25, 65, 68, 202, 180, 147, 191, 153, 83, 166, 121, 86, 159, 219, 58, 167, 153, 1, 166, 24, 0, 109, 76, 23, 209>> >>,
       << <<0, 255, 0, 0, 255, 0, 255, 0, 255, 0, 0, 255, 0, 255, 0, 0, 255, 255, 1, 0, 0, 255, 255, 100, 150, 201, 251, 3, 100, 150, 73, 123, 206, 181, 156, 131, 0, 50, 75, 100, 125, 255, 0, 0, 255, 0, 255, 0, 0, 255, 0, 255, 0, 255>>,
         <<120, 156, 99, 248, 207, 192, 240, 31, 12, 161, 196, 127, 70, 16, 145, 50, 237, 228, 111, 230, 148, 105, 158, 213, 231, 182, 206, 105, 102, 48, 242, 78, 169, 133, 43, 0, 65, 0, 145, 194, 24, 113>> >>,
       << <<0, 255, 0, 0, 255, 0, 255, 0, 255, 0, 255, 0, 0, 255, 0, 255, 0, 255, 0, 255, 0, 0, 255, 0, 255, 0, 255, 0, 255, 0, 0, 255, 0, 255, 0, 255, 0, 255, 0, 0, 255, 0, 255, 0, 255, 0, 255, 0, 0, 255, 0, 255, 0, 255>>,
         <<120, 156, 99, 248, 207, 192, 240, 31, 10, 137, 103, 0, 0, 127, 210, 23, 233>> >>,
       << <<1, 0, 0, 255, 255, 100, 150, 201, 251, 1, 0, 0, 255, 255, 100, 150, 201, 251, 1, 0, 0, 255, 255, 100, 150, 201, 251, 1, 0, 0, 255, 255, 100, 150, 201, 251, 1, 0, 0, 255, 255, 100, 150, 201, 251, 1, 0, 0, 255, 255, 100, 150, 201, 251>>,
         <<120, 156, 99, 100, 96, 248, 255, 63, 101, 218, 201, 223, 140, 164, 48, 0, 229, 45, 28, 111>> >>,
       << <<1, 0, 0, 255, 255, 100, 150, 201, 251, 3, 100, 150, 73, 123, 206, 181, 156, 131, 0, 50, 75, 100, 125, 255, 0, 0, 255, 0, 255, 0, 0, 255, 0, 255, 0, 255, 0, 0, 255, 0, 255, 0, 0, 255, 255, 1, 0, 0, 255, 255, 100, 150, 201, 251>>,
         <<120, 156, 99, 100, 96, 248, 255, 63, 101, 218, 201, 223, 204, 41, 211, 60, 171, 207, 109, 157, 211, 204, 96, 228, 157, 82, 251, 31, 40, 204, 0, 37, 224, 236, 255, 140, 48, 197, 0, 155, 64, 25, 50>> >>,
       << <<3, 100, 150, 200, 250, 0, 0, 0, 0, 0, 50, 75, 100, 125, 255, 0, 0, 255, 0, 255, 0, 0, 255, 0, 255, 0, 255, 0, 0, 255, 0, 255, 0, 0, 255, 255, 1, 0, 0, 255, 255, 100, 150, 201, 251, 3, 100, 150, 73, 123, 206, 181, 156, 131>>,
         <<120, 156, 99, 78, 153, 118, 226, 23, 3, 8, 24, 121, 167, 212, 254, 103, 96, 248, 207, 0, 37, 224, 236, 255, 140, 32, 34, 101, 218, 201, 223, 204, 41, 211, 60, 171, 207, 109, 157, 211, 12, 0, 52, 81, 23, 52>> >>,
       << <<3, 100, 150, 200, 250, 0, 0, 0, 0, 3, 50, 75, 100, 125, 231, 219, 206, 194, 3, 50, 75, 100, 125, 231, 219, 206, 194, 3, 50, 75, 100, 125, 231, 219, 206, 194, 3, 50, 75, 100, 125, 231, 219, 206, 194, 3, 50, 75, 100, 125, 231, 219, 206, 194>>,
         <<120, 156, 99, 78, 153, 118, 226, 23, 3, 16, 48, 27, 121, 167, 212, 62, 191, 125, 238, 16, 49, 12, 0, 136, 248, 26, 63>> >> }

\* zlib.compress(filtered_data)
zlib_compress(data) == (CHOOSE pair \in ZlibTable : pair[1] = data)[2]

max_size == 30

\* arr[i : -1], Python's slice that leaves out the last item.
SliceButLast(arr, i) == SubSeq(arr, i + 1, Len(arr) - 1)

\* The loop of compress_to_idat_chunks over arr, the compressed stream:
\* i in range(0, len(arr), max_size), with its break in the else branch.
compress_to_idat_chunks(arr) ==
    IF Len(arr) > max_size
    THEN [n \in 1 .. ((Len(arr) + max_size - 1) \div max_size) |->
            LET i == (n - 1) * max_size
                piece == Slice(arr, i, i + max_size)
            IN  Chunk(max_size, IDAT_TYPE, piece, calc_crc(piece, IDAT_TYPE))]
    ELSE IF Len(arr) = 0 THEN <<>>
    ELSE LET piece == SliceButLast(arr, 0)
         IN  << Chunk(Len(piece), IDAT_TYPE, piece, calc_crc(piece, IDAT_TYPE)) >>

\* PNGEncoder.prepare_ihdr: an IHDR, the NamedTuple of a length, the type
\* as bytes and the header fields as an IHDRData.
prepare_ihdr ==
    [class |-> "IHDR", length |-> 13, chunk_type |-> IHDR_TYPE,
     chunk_data |-> IHDRData(width, height, 8, 6, 0, 0, 0)]

\* PNGEncoder.iend_chunk
iend_chunk ==
    [class |-> "Chunk",
     chunk |-> Chunk(0, IEND_TYPE, <<>>, calc_crc(<<>>, IEND_TYPE))]

\* Chunk.__bytes__: length, type, payload and crc packed big-endian.
Chunk_bytes(self) ==
    PackU32(self.length) \o self.chunk_type \o self.chunk_data \o self.crc

\* bytes(chunk) for the objects final_datastream collects.  A Chunk has
\* __bytes__.  An IHDR is a tuple whose second item is a bytes object and a
\* list of Chunks is a list whose items are no integers: bytes() of either
\* raises TypeError, and bytes() of an empty list is empty.
py_bytes(obj) ==
    IF obj.class = "Chunk"
    THEN [raised |-> "none", value |-> Chunk_bytes(obj.chunk)]
    ELSE IF obj.class = "list" /\ obj.items = <<>>
    THEN [raised |-> "none", value |-> <<>>]
    ELSE [raised |-> "TypeError", value |-> <<>>]

\* for chunk in chunks: d += bytes(chunk)
RECURSIVE datastream_loop(_, _, _)
datastream_loop(chunk_list, k, d) ==
    IF k > Len(chunk_list) THEN [raised |-> "none", value |-> d]
    ELSE LET b == py_bytes(chunk_list[k])
         IN  IF b.raised # "none" THEN b
             ELSE datastream_loop(chunk_list, k + 1, d \o b.value)

\* PNGEncoder.final_datastream, idats being what compress_to_idat_chunks
\* returned: the list of chunks is appended as one item.
final_datastream(idats) ==
    datastream_loop(<< prepare_ihdr,
                       [class |-> "list", items |-> idats],
                       iend_chunk >>, 1, <<>>)

InitEncoder ==
    /\ pc = "encoder"
    /\ \E w \in Widths, h \in 1 .. MaxEncRows, seed \in EncoderSeeds,
          rowstep \in RowSteps :
          /\ raw_source = pixels(w, h, seed, rowstep)
          /\ width = w
          /\ height = h
          /\ stride = w * 4
    /\ selections = <<>>
    /\ compressed = <<>>
    /\ idat_chunks = <<>>
    /\ datastream = NoDatastream
    /\ source_data = <<>> /\ filter_bytes = <<>>
    /\ filter_byte = -1 /\ gen_i = 0 /\ filter_data = <<>>
    /\ channel = "none" /\ recon_input = <<>> /\ recon_data = <<>>
    /\ reconstruction_func = "unbound" /\ square = None
    /\ recon_reads = NoReads
    /\ KernelIdle
    /\ ChunkIdle
    /\ DecoderIdle
    /\ ReconstructorIdle

\* A call of best_filters, its result kept; at most two calls.
BestFilters ==
    /\ pc = "encoder"
    /\ Len(selections) < 2
    /\ selections' = Append(selections, best_filters)
    /\ raw_source' = best_filters_leaves
    /\ UNCHANGED <<pc, width, height, compressed, idat_chunks,
                   datastream, pipeline_vars, kernel_vars, chunk_vars, decoder_vars,
                   reconstructor_vars>>

\* apply_filtering: source_to_byte_array, best_filters and
\* Transformer.filter(source_bytes, filter_bytes, self.stride, 4).
\* png_decoder defines no Transformer; the call is that of the forward
\* transform, Transformer_filter.
ApplyFiltering ==
    /\ pc = "encoder"
    /\ LET source_bytes == source_to_byte_array(raw_source)
           chosen == best_filters
       IN  /\ source_data' = source_bytes
           /\ filter_bytes' = chosen
           /\ filter_data' = Transformer_filter(source_bytes, chosen, stride, 4)
    /\ raw_source' = best_filters_leaves
    /\ pc' = "filtered"
    /\ UNCHANGED <<stride, filter_byte, gen_i, channel, recon_input, recon_data,
                   reconstruction_func, square, recon_reads, width, height,
                   selections, compressed, idat_chunks, datastream,
                   kernel_vars, chunk_vars, decoder_vars, reconstructor_vars>>

\* compress_to_idat_chunks(filtered_data)
CompressToIdatChunks ==
    /\ pc = "filtered"
    /\ LET arr == zlib_compress(filter_data)
       IN  /\ compressed' = arr
           /\ idat_chunks' = compress_to_idat_chunks(arr)
    /\ pc' = "chunked"
    /\ UNCHANGED <<raw_source, width, height, selections, datastream,
                   pipeline_vars, kernel_vars, chunk_vars, decoder_vars,
                   reconstructor_vars>>

\* final_datastream(filtered_data)
FinalDatastream ==
    /\ pc = "filtered"
    /\ LET arr == zlib_compress(filter_data)
       IN  /\ compressed' = arr
           /\ idat_chunks' = compress_to_idat_chunks(arr)
           /\ datastream' = final_datastream(compress_to_idat_chunks(arr))
    /\ pc' = "finalised"
    /\ UNCHANGED <<raw_source, width, height, selections, pipeline_vars,
                   kernel_vars, chunk_vars, decoder_vars,
                   reconstructor_vars>>

NextEncoder ==
    \/ BestFilters
    \/ ApplyFiltering
    \/ CompressToIdatChunks
    \/ FinalDatastream

SpecEncoder == InitEncoder /\ [][NextEncoder]_vars

(***************************************************************************)
(* Reconstructor objects.  A Reconstructor is created for a width and a    *)
(* height and PNGDecoder.reconstruct_from_inflated_data hands it a buffer  *)
(* of inflated data: self.png_reconstructor.reconstruct(buf) in            *)
(* src/png_decoder.py, self.png_reconstructor.reconstruct_buf(buf) in      *)
(* src/src/png_decoder.py.  An object is created and called twice, each    *)
(* call as one step.                                                       *)
(***************************************************************************)
MaxBufRows == 2

\* Reconstructor.__init__ of src/png_decoder.py
Reconstructor_v1(w, h) ==
    [module |-> "png_decoder", bytes_per_pixel |-> 4, height |-> h,
     stride |-> w * 4, reconstructed |-> <<>>, reconstruction |-> TRUE,
     reconstruction_funcs |-> <<"none_recon", "sub_recon", "up_recon",
                                "average_recon", "paeth_recon">>]

\* Reconstructor.__init__ of src/src/png_decoder.py
Reconstructor(w, h) ==
    [module |-> "src.png_decoder", bytes_per_pixel |-> 4, height |-> h,
     stride |-> w * 4, filter_bytes_index |-> <<>>]

\* Square.sample_x
sample_x(filt_x, x_idx, current_scanline, previous_scanline) ==
    Square(filt_x, At(current_scanline, x_idx),
           At(previous_scanline, x_idx + 1), At(previous_scanline, x_idx))

\* bytearray(b"\x00" * n)
zeros(n) == [k \in 1 .. n |-> 0]

\* How a loop or a call ended: what was raised, the value it has, the
\* object's attributes, and the squares that were sampled, each with its
\* row h and its column offset i.
Ended(raised, value, self, sampled) ==
    [raised |-> raised, value |-> value, self |-> self, sampled |-> sampled]

\* src/png_decoder.py, reconstruct: the loop over the bytes of scanline h,
\* from byte i on; its value is recon_line.
RECURSIVE scan_loop_v1(_, _, _, _, _, _)
scan_loop_v1(self, row, i, recon_line, last_line, sampled) ==
    IF i >= Len(row.filt_scan) THEN Ended("none", recon_line, self, sampled)
    ELSE LET line_idx == i + 1
             filt_x == At(row.filt_scan, i)
             recon_a == At(recon_line, line_idx - 1)
             recon_b == At(last_line, line_idx)
             recon_c == At(last_line, line_idx - 1)
             sq == Square(filt_x, recon_a, recon_b, recon_c)
             seen == Append(sampled, [h |-> row.h, i |-> i, square |-> sq])
         IN  IF row.filter_byte \notin 0 .. 4
             THEN Ended("ValueError", <<>>, self, seen)
             ELSE LET func == At(self.reconstruction_funcs, row.filter_byte)
                      recon_x == Call(func, sq)
                  IN  scan_loop_v1(self, row, i + 1,
                                   Append(recon_line, Mask8(recon_x)),
                                   last_line, seen)

\* src/png_decoder.py, reconstruct: the loop over the scanlines, from
\* scanline h on, buf being read from position pos.
RECURSIVE line_loop_v1(_, _, _, _, _, _)
line_loop_v1(self, buf, pos, h, last_line, sampled) ==
    IF h >= self.height THEN Ended("none", self.reconstructed, self, sampled)
    ELSE LET filt_line == Read(buf, pos, self.stride + 1)
         IN  IF filt_line = <<>> THEN Ended("IndexError", <<>>, self, sampled)
             ELSE LET row == [h |-> h, filter_byte |-> At(filt_line, 0),
                              filt_scan |-> Tail(filt_line)]
                      line == scan_loop_v1(self, row, 0, <<0>>, last_line, sampled)
                      recon_scan == Tail(line.value)
                  IN  IF line.raised # "none" THEN line
                      ELSE line_loop_v1(
                             [self EXCEPT !.reconstructed = @ \o recon_scan],
                             buf, pos + Len(filt_line), h + 1, line.value,
                             line.sampled)

\* Reconstructor.reconstruct(buf) of src/png_decoder.py
Reconstructor_reconstruct(self, buf) ==
    line_loop_v1(self, buf, 0, 0, zeros(self.stride + 1), <<>>)

\* src/src/png_decoder.py, reconstruct_buf: the loop over the bytes of
\* scanline h.  Its first iteration samples a square and then reads
\* self.reconstruction_funcs, which __init__ does not set: AttributeError.
\* An object that had the attribute would go on to subscript the function
\* Filters.select_reconstruction_func: TypeError.
scan_loop(self, row, recon_line, prev_recon_line, sampled) ==
    IF Len(row.filt_scan) = 0 THEN Ended("none", recon_line, self, sampled)
    ELSE LET i == 0
             filt_x == At(row.filt_scan, i)
             sq == sample_x(filt_x, i, recon_line, prev_recon_line)
             seen == Append(sampled, [h |-> row.h, i |-> i, square |-> sq])
         IN  IF "reconstruction_funcs" \notin DOMAIN self
             THEN Ended("AttributeError", <<>>, self, seen)
             ELSE IF row.filter_byte \notin 0 .. (Len(self.reconstruction_funcs) - 1)
             THEN Ended("ValueError", <<>>, self, seen)
             ELSE Ended("TypeError", <<>>, self, seen)

\* src/src/png_decoder.py, reconstruct_buf: the loop over the scanlines,
\* from scanline h on, buf being read from position pos.
RECURSIVE line_loop(_, _, _, _, _, _, _)
line_loop(self, buf, pos, h, prev_recon_line, reconstructed, sampled) ==
    IF h >= self.height THEN Ended("none", reconstructed, self, sampled)
    ELSE LET filt_line == Read(buf, pos, self.stride + 1)
         IN  IF filt_line = <<>> THEN Ended("IndexError", <<>>, self, sampled)
             ELSE LET row == [h |-> h, filter_byte |-> At(filt_line, 0),
                              filt_scan |-> Tail(filt_line)]
                      indexed == [self EXCEPT !.filter_bytes_index =
                                                  Append(@, row.filter_byte)]
                      line == scan_loop(indexed, row, <<0>>, prev_recon_line,
                                        sampled)
                      recon_scan == Tail(line.value)
                  IN  IF line.raised # "none" THEN line
                      ELSE line_loop(indexed, buf, pos + Len(filt_line), h + 1,
                                     line.value, reconstructed \o recon_scan,
                                     line.sampled)

\* Reconstructor.reconstruct_buf(buf) of src/src/png_decoder.py
reconstruct_buf(self, buf) ==
    line_loop(self, buf, 0, 0, zeros(self.stride + 1), <<>>, <<>>)

\* The inflated data of an image of w by h pixels: per row a tag and 4 * w
\* bytes.
stream(tags, data, strd) ==
    extend(<<>>, [r \in 1 .. Len(tags) |->
                    <<tags[r]>> \o Slice(data, (r - 1) * strd, r * strd)])

BufStreams(w, h) ==
    { stream(tags, image(w, h, seed, 1), 4 * w) :
        tags \in [1 .. h -> FilterKinds], seed \in Seeds }

FirstStreams(w, h) ==
    { stream([r \in 1 .. h |-> t], image(w, h, 0, 1), 4 * w) : t \in {0, 1} }

InitReconstructor ==
    /\ pc = "reconstructor"
    /\ \E w \in Widths, h \in 1 .. MaxBufRows :
          /\ instance \in {Reconstructor_v1(w, h), Reconstructor(w, h)}
          /\ \E first \in FirstStreams(w, h), second \in BufStreams(w, h) :
                bufs = <<first, second>>
    /\ results = <<>>
    /\ PipelineIdle
    /\ KernelIdle
    /\ ChunkIdle
    /\ DecoderIdle
    /\ EncoderIdle

\* PNGDecoder.reconstruct_from_inflated_data(buf), buf being a new BytesIO
\* over the next stream.
ReconstructFromInflatedData ==
    /\ pc = "reconstructor"
    /\ Len(results) < Len(bufs)
    /\ LET buf == bufs[Len(results) + 1]
           ended == IF instance.module = "png_decoder"
                    THEN Reconstructor_reconstruct(instance, buf)
                    ELSE reconstruct_buf(instance, buf)
       IN  /\ instance' = ended.self
           /\ results' = Append(results, [raised |-> ended.raised,
                                          value |-> ended.value,
                                          sampled |-> ended.sampled])
    /\ UNCHANGED <<pc, bufs, pipeline_vars, kernel_vars, chunk_vars,
                   decoder_vars, encoder_vars>>

NextReconstructor == ReconstructFromInflatedData

SpecReconstructor == InitReconstructor /\ [][NextReconstructor]_vars

(***************************************************************************)
(* Properties of filter and reconstruct (specification Spec).              *)
(***************************************************************************)
Rows == Len(source_data) \div stride

\* Byte (r, col) of a buffer of rows of strd bytes; 0 outside the buffer's
\* first row and first pixel.
Cell(buf, strd, r, col) ==
    IF r < 0 \/ col < 0 THEN 0 ELSE At(buf, r * strd + col)

AllNone == \A i \in 1 .. Len(filter_bytes) : filter_bytes[i] = 0

\* C1: for every filter kind f and every raw buffer of whole rows,
\* reconstruct(filter(raw, [f], stride, 4), stride, 4) equals raw.
C1_RoundTripUniform ==
    (pc = "returned" /\ channel = "intact" /\ Len(filter_bytes) = 1)
        => recon_data = source_data

\* C2: the round trip returns raw for every non-empty per-row pattern of
\* filter kinds, uniform or not, shorter or longer than the number of rows.
C2_RoundTripPattern ==
    (pc = "returned" /\ channel = "intact") => recon_data = source_data

\* C3: with filter None on every row, filter emits for each row r, in order,
\* the tag 0 followed by the stride raw bytes of row r unchanged.
C3_NoneFilterEmitsRawRows ==
    (pc = "filtered" /\ AllNone) =>
        /\ Len(filter_data) >= Rows * (stride + 1)
        /\ \A r \in 0 .. (Rows - 1) :
              /\ At(filter_data, r * (stride + 1)) = 0
              /\ \A j \in 0 .. (stride - 1) :
                    At(filter_data, r * (stride + 1) + 1 + j)
                        = At(source_data, r * stride + j)

C3_Witness ==
    /\ pc = "filtered" /\ AllNone
    /\ stride = 8 /\ Rows = 2
    /\ At(source_data, 4) # 0
    /\ At(source_data, 8) # At(source_data, 0)

\* The position in the raw buffer of the byte the last step reconstructed.
ReconPos == Len(recon_data) - 1

\* C6: at decode time the square sampled for byte (r, col) holds the
\* filtered byte x and a = recon(r, col-4), b = recon(r-1, col),
\* c = recon(r-1, col-4), with a = c = 0 when col < 4 and b = c = 0 when
\* r = 0.
C6_ReconSquareNeighbours ==
    (pc = "reconstruct" /\ Len(recon_data) > 0) =>
        LET r == ReconPos \div stride
            col == ReconPos % stride
        IN  /\ square.x = At(recon_input, r * (stride + 1) + 1 + col)
            /\ square.a = (IF col < 4 THEN 0 ELSE Cell(recon_data, stride, r, col - 4))
            /\ square.b = (IF r = 0 THEN 0 ELSE Cell(recon_data, stride, r - 1, col))
            /\ square.c = (IF col < 4 \/ r = 0 THEN 0
                           ELSE Cell(recon_data, stride, r - 1, col - 4))

\* The first byte that has all three neighbours, each of them non-zero.
C6_Witness ==
    /\ pc = "reconstruct"
    /\ stride = 8
    /\ ReconPos = stride + 4
    /\ square.a > 0 /\ square.b > 0 /\ square.c > 0

\* The position in the raw buffer of the byte next_filter_square samples for
\* a filtered buffer that ends inside a row: the buffer holds one tag per row
\* begun.
FilterPos == Len(filter_data) - (Len(filter_data) \div (stride + 1)) - 1

\* C7: at encode time the square sampled for byte (r, col) is read from the
\* raw source: x = source(r, col), a = source(r, col-4), b = source(r-1, col),
\* c = source(r-1, col-4), missing neighbours being 0.
C7_FilterSquareNeighbours ==
    (pc = "sampled" /\ square # None /\ Len(filter_data) % (stride + 1) # 0) =>
        LET r == FilterPos \div stride
            col == FilterPos % stride
        IN  /\ square.x = Cell(source_data, stride, r, col)
            /\ square.a = Cell(source_data, stride, r, col - 4)
            /\ square.b = Cell(source_data, stride, r - 1, col)
            /\ square.c = (IF col < 4 THEN 0
                           ELSE Cell(source_data, stride, r - 1, col - 4))

\* C8: the stream filter returns for h whole rows has exactly
\* h * (1 + stride) bytes, a tag and stride bytes per row and nothing more.
C8_FilteredLength ==
    pc = "filtered" => Len(filter_data) = Rows * (1 + stride)

\* Some row of stream s begins with a tag outside 0..4.
HasBadTag(s) ==
    \E row \in 0 .. (Len(s) \div (stride + 1)) :
        /\ row * (stride + 1) < Len(s)
        /\ At(s, row * (stride + 1)) \notin 0 .. 4

\* C9: a stream in which some row's leading tag is outside 0..4 makes
\* reconstruct fail and return no buffer.
C9_BadTagRejected ==
    (pc \in {"reconstruct", "returned", "raised"} /\ HasBadTag(recon_input))
        => pc # "returned"

\* C23: as the filter tests assert, in row 0, the filtered buffer holding
\* the tag and k >= 1 filtered bytes, next_filter_square(source, filtered,
\* stride = 12, bytes_per_pixel = 4) returns x = source[k], a = source[k-1],
\* b = 0, c = 0, and the Sub filter's output for it is
\* source[k] - source[k-1].
C23_TestedSquare ==
    (pc = "sampled" /\ stride = 12 /\ Len(filter_data) \in 2 .. stride) =>
        LET k == Len(filter_data) - 1
        IN  /\ square = Square(At(source_data, k), At(source_data, k - 1), 0, 0)
            /\ sub_filter(square) = At(source_data, k) - At(source_data, k - 1)

\* C26: in every step of reconstruct each index read from the output buffer
\* for a, b and c is non-negative and below the number of bytes already
\* reconstructed, and the byte the step produces is appended right after
\* them: the scan goes left to right and top to bottom and reads no byte it
\* has not produced.
C26_ReadsAlreadyProduced ==
    /\ \A i \in recon_reads.idx : i >= 0 /\ i < recon_reads.have
    /\ (pc = "reconstruct" /\ Len(recon_data) > 0) =>
           Len(recon_data) = recon_reads.have + 1

\* A step in which a, b and c are all read from the output buffer.
C26_Witness ==
    /\ pc = "reconstruct"
    /\ Cardinality(recon_reads.idx) = 3
    /\ recon_reads.have > stride + 4

\* The data bytes of a filtered stream under construction: its length less
\* one tag per row begun.
DataBytes(fdata) == Len(fdata) - ((Len(fdata) + stride) \div (stride + 1))

\* The index in stream fdata of the filtered byte that follows n
\* reconstructed bytes.
NextFiltered(n) == (n \div stride) * (stride + 1) + 1 + (n % stride)

\* A step that stays in a loop appends one data byte; a step that leaves it
\* appends nothing.
OneBytePerIteration ==
    /\ (pc = "filter" /\ pc' = "filter") =>
           DataBytes(filter_data') = DataBytes(filter_data) + 1
    /\ (pc = "filter" /\ pc' # "filter") => filter_data' = filter_data
    /\ (pc = "reconstruct" /\ pc' = "reconstruct") =>
           /\ Len(recon_data') = Len(recon_data) + 1
           /\ SubSeq(recon_data', 1, Len(recon_data)) = recon_data
    /\ (pc = "reconstruct" /\ pc' # "reconstruct") => recon_data' = recon_data

\* No more iterations than the input has bytes, and the loops end when the
\* input is exhausted and not before.
BoundedByInput ==
    /\ pc \in {"filter", "filtered", "filter_raised"} =>
           DataBytes(filter_data) <= Len(source_data)
    /\ pc = "filtered" => DataBytes(filter_data) = Len(source_data)
    /\ pc \in {"reconstruct", "returned", "raised"} =>
           Len(recon_data) <= Len(recon_input)
    /\ pc = "returned" => NextFiltered(Len(recon_data)) >= Len(recon_input)
    /\ (pc = "reconstruct" /\ Len(recon_data) > 0) =>
           NextFiltered(Len(recon_data) - 1) < Len(recon_input)

\* C27: filter and reconstruct terminate on every input with stride >= 1:
\* each call comes to its end; each iteration of either loop appends exactly
\* one data byte to the output; the number of iterations is at most the
\* length of the input; and the loop ends as soon as the source buffer, or
\* the filtered stream, is exhausted.
C27_Termination ==
    /\ <>(pc \in {"filtered", "filter_raised"})
    /\ (pc = "reconstruct") ~> (pc \in {"returned", "raised"})
    /\ [][OneBytePerIteration]_vars
    /\ []BoundedByInput

\* Both calls have come to their end on a buffer that is no whole number
\* of rows, after as many iterations as the buffer has bytes.
C27_Witness ==
    /\ pc = "returned"
    /\ channel = "intact"
    /\ stride = 3
    /\ Len(source_data) = 4
    /\ DataBytes(filter_data) = 4
    /\ Len(recon_data) = 4

\* C22: a stream shorter than height * (1 + stride) bytes, cut in the middle
\* of a row or missing whole rows, makes reconstruct fail: it never returns
\* a buffer of fewer than height * stride bytes for it.
C22_NoPartialOutput ==
    (pc = "returned" /\ Len(recon_input) < Rows * (1 + stride))
        => Len(recon_data) >= Rows * stride

(***************************************************************************)
(* Properties of the filter functions (specification SpecKernel).          *)
(***************************************************************************)
\* C4: for each of the five kinds and every window, the reconstruction
\* function applied to the masked filter result inverts it modulo 256.
C4_ReconInvertsFilter ==
    pc = "kernel_done" => Mask8(kout.recon) = kx

\* A window whose filter result is negative before masking and whose
\* reconstruction overflows a byte.
C4_Witness ==
    /\ pc = "kernel_done"
    /\ kfilt = 3
    /\ kout.filt < 0
    /\ kout.masked = kout.filt + 256
    /\ kout.recon > 255
    /\ (ka + kb) % 2 = 1

\* C5: with p = a + b - c, paeth_predictor returns a when |p-a| <= |p-b| and
\* |p-a| <= |p-c|, otherwise b when |p-b| <= |p-c|, otherwise c: one of a, b, c
\* at minimal distance from p, ties going to a before b before c.
C5_PaethNearest ==
    pc = "kernel_done" =>
        LET p == ka + kb - kc
            da == Abs(p - ka)
            db == Abs(p - kb)
            dc == Abs(p - kc)
            d == Abs(p - kout.paeth)
        IN  /\ kout.paeth \in {ka, kb, kc}
            /\ d <= da /\ d <= db /\ d <= dc
            /\ (da <= db /\ da <= dc) => kout.paeth = ka
            /\ (~(da <= db /\ da <= dc) /\ db <= dc) => kout.paeth = kb
            /\ (~(da <= db /\ da <= dc) /\ ~(db <= dc)) => kout.paeth = kc

\* a and c differ and are equally near p, b is farther: the tie goes to a.
C5_Witness ==
    /\ pc = "kernel_done"
    /\ ka # kc
    /\ Abs(kb - kc) = Abs(ka + kb - kc - kc)
    /\ Abs(kb - kc) < Abs(ka - kc)
    /\ kout.paeth = ka

(***************************************************************************)
(* Properties of the chunk parser (specification SpecChunker).             *)
(***************************************************************************)
\* C10: parsing fails with the checksum error, and returns no chunk list,
\* whenever a chunk read up to and including IEND stores a CRC that differs
\* from CRC32(type || payload) of the bytes read; no chunk with a
\* mismatching CRC is ever accepted.
C10_ChecksumEnforced ==
    /\ \A id \in 1 .. Len(heap) :
          heap[id].crc = calc_crc(heap[id].chunk_data, heap[id].chunk_type)
    /\ damaged.kind \in {"crc", "payload"} =>
          /\ chunk_idx <= damaged.idx
          /\ pc = "chunks_returned" => chunk_idx = damaged.idx
          /\ pc \notin {"chunker", "chunks_returned"} =>
                /\ pc = "checksum_error"
                /\ chunk_idx = damaged.idx
                /\ Len(chunks) = chunk_idx

\* A payload bit of an IDAT chunk was flipped; the chunks before it were
\* accepted and parsing stopped at it with the checksum error.
C10_Witness ==
    /\ pc = "checksum_error"
    /\ damaged.kind = "payload"
    /\ damaged.idx = 2
    /\ chunk_idx = 2
    /\ heap[1].chunk_type = IHDR_TYPE
    /\ heap[1].crc = <<31, 21, 196, 137>>

\* The chunks a well-formed buffer holds from position pos up to and
\* including the first IEND, as type and payload.
RECURSIVE WirePlans(_, _)
WirePlans(buf, pos) ==
    IF pos + 12 > Len(buf) THEN <<>>
    ELSE LET n == UnpackU32(SubSeq(buf, pos + 1, pos + 4))
             type == SubSeq(buf, pos + 5, pos + 8)
         IN  IF pos + 12 + n > Len(buf) THEN <<>>
             ELSE
             <<Plan(type, SubSeq(buf, pos + 9, pos + 8 + n))>>
               \o (IF type = IEND_TYPE THEN <<>>
                   ELSE WirePlans(buf, pos + 12 + n))

\* The payloads of the IDAT chunks among plans, concatenated in order.
RECURSIVE IdatPayload(_, _)
IdatPayload(plans, k) ==
    IF k > Len(plans) THEN <<>>
    ELSE (IF plans[k].type = IDAT_TYPE THEN plans[k].payload ELSE <<>>)
           \o IdatPayload(plans, k + 1)

IdatCount(plans) == Cardinality({k \in 1 .. Len(plans) : plans[k].type = IDAT_TYPE})

\* C13: for n >= 1 consecutive IDAT chunks before IEND, the returned chunk
\* list holds exactly one IDAT chunk, at idat_chunk_idx, whose payload is the
\* concatenation of the n payloads in order, whose length is its payload's
\* size and whose crc is CRC32 over type and concatenated payload.
C13_IdatMerged ==
    (pc = "chunks_returned" /\ IdatCount(WirePlans(data_buffer, 0)) >= 1) =>
        LET wire == WirePlans(data_buffer, 0)
            all == IdatPayload(wire, 1)
            merged == heap[chunks[idat_chunk_idx + 1]]
        IN  /\ Cardinality({k \in 1 .. Len(chunks) :
                              heap[chunks[k]].chunk_type = IDAT_TYPE}) = 1
            /\ idat_chunk_idx + 1 \in 1 .. Len(chunks)
            /\ merged.chunk_type = IDAT_TYPE
            /\ merged.chunk_data = all
            /\ merged.length = Len(all)
            /\ merged.crc = calc_crc(all, IDAT_TYPE)

\* C14: merging leaves every chunk object that was read unchanged: after the
\* return each of them has the payload, length and crc it was created with.
C14_MergeLeavesInputs ==
    pc = "chunks_returned" =>
        LET wire == WirePlans(data_buffer, 0)
        IN  \A id \in 1 .. Len(heap) :
               heap[id] = Chunk(Len(wire[id].payload), wire[id].type,
                                wire[id].payload,
                                calc_crc(wire[id].payload, wire[id].type))

\* C15: parsing stops and returns at the first IEND chunk; a buffer that ends
\* at a chunk boundary with no IEND read fails with the missing-terminator
\* error and with no other.
C15_MissingTerminator ==
    LET wire == WirePlans(data_buffer, 0)
    IN  /\ pc = "chunks_returned" =>
              /\ wire[Len(wire)].type = IEND_TYPE
              /\ chunk_idx = Len(wire)
              /\ heap[chunks[Len(chunks)]].chunk_type = IEND_TYPE
        /\ (pc # "chunker" /\ damaged = NoDamage
              /\ wire[Len(wire)].type # IEND_TYPE) => pc = "no_iend_error"

(***************************************************************************)
(* Properties of PNGDecoder.__init__ (specification SpecDecoder).          *)
(***************************************************************************)
\* The header fields as the file holds them: the 13 bytes that follow the
\* signature, the length and the type of the first chunk.
FileHeader == IHDRData_from_bytes(SubSeq(file, 17, 29))

Supported(d) ==
    d.bit_depth = 8 /\ d.colour_type = 6 /\ d.compression_method = 0
        /\ d.filter_method = 0 /\ d.interlace_method = 0

\* C11: header validation accepts an IHDR exactly when bit_depth = 8,
\* colour_type = 6 and the compression, filter and interlace methods are 0;
\* every other header is rejected with an error before the Reconstructor is
\* created.
C11_HeaderValidation ==
    (pc \notin {"decoder", "read", "extracted", "signature_error"}) =>
        /\ (pc = "header_error") <=> ~Supported(FileHeader)
        /\ ~Supported(FileHeader) => png_reconstructor = <<>>
        /\ png_reconstructor # <<>> => Supported(FileHeader)

\* A header whose only unsupported field is colour_type = 2 was rejected.
C11_Witness ==
    /\ pc = "header_error"
    /\ FileHeader.colour_type = 2
    /\ FileHeader.bit_depth = 8
    /\ FileHeader.compression_method = 0
    /\ FileHeader.filter_method = 0
    /\ FileHeader.interlace_method = 0
    /\ png_reconstructor = <<>>

\* C12: validation goes signature, then chunk framing and CRC, then header
\* constraints: a bad signature is reported before anything else, and a
\* datastream with both a damaged chunk and an unsupported IHDR field is
\* reported as the framing or CRC error, never as the header error.
C12_ValidationOrder ==
    /\ (pc # "decoder" /\ Read(file, 0, 8) # PNG_SIGNATURE)
          => pc = "signature_error"
    /\ (damaged.kind # "none" /\ ~Supported(FileHeader))
          => pc # "header_error"

(***************************************************************************)
(* Properties of PNGEncoder (specification SpecEncoder).                   *)
(***************************************************************************)
\* The window of byte (r, col) of the raw image, b and c read from the row
\* above, row r - 1, and 0 where the image has no such byte.
TrueSquare(r, col) ==
    LET raw == source_to_byte_array(raw_source)
    IN  Square(Cell(raw, stride, r, col), Cell(raw, stride, r, col - 4),
               Cell(raw, stride, r - 1, col), Cell(raw, stride, r - 1, col - 4))

\* The score of row r under filter k: the sum over the row's bytes of the
\* absolute value of the filtered byte read as signed 8-bit.
RECURSIVE TrueScoreFrom(_, _, _)
TrueScoreFrom(r, k, col) ==
    IF col >= stride THEN 0
    ELSE Abs(I8(Mask8(Call(select_filter_func(k), TrueSquare(r, col)))))
           + TrueScoreFrom(r, k, col + 1)

TrueScore(r, k) == TrueScoreFrom(r, k, 0)

\* C16: for every row r, best_filters selects a filter whose score is
\* minimal among the five candidates for that row, the candidates being
\* computed with b and c taken from the true previous raw row r - 1.
C16_MinimalTrueScore ==
    Len(selections) > 0 =>
        \A r \in 0 .. (height - 1) : \A k \in FilterKinds :
            TrueScore(r, At(selections[1], r)) <= TrueScore(r, k)

\* C17: when several filters have the same minimal score for a row,
\* best_filters returns the lowest index among them: the filter it returns
\* has the minimal score and every lower index has a greater one.
C17_LowestIndexOnTie ==
    Len(selections) > 0 =>
        \A r \in 0 .. (height - 1) :
            LET score == filter_scores[r + 1]
                f == At(selections[Len(selections)], r)
            IN  /\ At(score, f) = Minimum(score)
                /\ \A k \in 0 .. (f - 1) : At(score, k) > At(score, f)

\* Sub and Paeth tie at the minimum of a row, below None: Sub is returned.
C17_Witness ==
    /\ Len(selections) > 0
    /\ \E r \in 0 .. (height - 1) :
          LET score == filter_scores[r + 1]
          IN  /\ At(selections[1], r) = 1
              /\ At(score, 1) = At(score, 4)
              /\ At(score, 1) < At(score, 0)

\* C18: the tag and the stride filtered bytes that apply_filtering emits for
\* row r are the candidate row that was scored for row r under the filter
\* best_filters selected for it.
C18_SelectionMatchesApplication ==
    (pc = "filtered" /\ height > 0) =>
        \A r \in 0 .. (height - 1) :
            LET f == At(filter_bytes, r)
                scored == consume_lines(width, stride, raw_source,
                                        select_filter_func(f), f)
            IN  SubSeq(filter_data, r * (stride + 1) + 1, (r + 1) * (stride + 1))
                    = scored[r + 1]

C20_ChunksCarryPayload ==
    pc = "chunked" =>
        /\ \A n \in 1 .. Len(idat_chunks) :
              /\ Len(idat_chunks[n].chunk_data) <= max_size
              /\ idat_chunks[n].length = Len(idat_chunks[n].chunk_data)
              /\ idat_chunks[n].chunk_type = IDAT_TYPE
        /\ extend(<<>>, [n \in 1 .. Len(idat_chunks) |->
                            idat_chunks[n].chunk_data]) = compressed

\* The chunks of a datastream after its signature, each framed again as
\* length, type, payload and CRC32 over type and payload.
RECURSIVE Framed(_, _)
Framed(plans, k) ==
    IF k > Len(plans) THEN <<>>
    ELSE PackU32(Len(plans[k].payload)) \o plans[k].type \o plans[k].payload
           \o calc_crc(plans[k].payload, plans[k].type)
           \o Framed(plans, k + 1)

\* C21: the datastream final_datastream returns is the 8-byte signature
\* followed by exactly one IHDR chunk, one or more IDAT chunks and one IEND
\* chunk with an empty payload, in this order, each framed as big-endian
\* length, type, payload and CRC32 over type and payload.
C21_DatastreamLayout ==
    pc = "finalised" =>
        /\ datastream.raised = "none"
        /\ Len(datastream.value) >= 8
        /\ SubSeq(datastream.value, 1, 8) = PNG_SIGNATURE
        /\ LET rest == SubSeq(datastream.value, 9, Len(datastream.value))
               plans == WirePlans(rest, 0)
           IN  /\ Len(plans) >= 3
               /\ plans[1].type = IHDR_TYPE
               /\ \A k \in 2 .. (Len(plans) - 1) : plans[k].type = IDAT_TYPE
               /\ plans[Len(plans)] = Plan(IEND_TYPE, <<>>)
               /\ rest = Framed(plans, 1)

\* C28: best_filters returns neither 2 (Up) nor 4 (Paeth) for any row of
\* any image: in the scoring pass b and c are always 0, so that the row
\* scored for Up is that scored for None and the row scored for Paeth is
\* that scored for Sub, tags aside, and the first minimum has the lower
\* index.
C28_NeverUpOrPaeth ==
    /\ (pc = "encoder" /\ Len(selections) > 0) =>
          LET chosen == selections[Len(selections)]
              scored(k) == consume_lines(width, stride, raw_source,
                                         select_filter_func(k), k)
          IN  \A r \in 0 .. (height - 1) :
                 /\ At(chosen, r) \notin {2, 4}
                 /\ Tail(scored(2)[r + 1]) = Tail(scored(0)[r + 1])
                 /\ Tail(scored(4)[r + 1]) = Tail(scored(1)[r + 1])
                 /\ filter_scores[r + 1][3] = filter_scores[r + 1][1]
                 /\ filter_scores[r + 1][5] = filter_scores[r + 1][2]
    /\ pc \in {"filter", "filtered", "chunked", "finalised"} =>
          \A n \in 1 .. Len(filter_bytes) : filter_bytes[n] \notin {2, 4}

\* A row equal to the row above it, for which Up, with b read from that
\* row, scores less than None and Sub: best_filters has been called.
C28_Witness ==
    /\ Len(selections) > 0
    /\ \E r \in 1 .. (height - 1) :
          /\ TrueScore(r, 2) = 0
          /\ TrueScore(r, 0) > 0
          /\ TrueScore(r, 1) > 0
          /\ At(selections[Len(selections)], r) \in {0, 1, 3}

(***************************************************************************)
(* Properties of Reconstructor objects (specification SpecReconstructor).  *)
(***************************************************************************)
\* What a new object of instance's class makes of stream s.
Fresh(s) ==
    LET w == instance.stride \div 4
    IN  IF instance.module = "png_decoder"
        THEN Reconstructor_reconstruct(Reconstructor_v1(w, instance.height), s)
        ELSE reconstruct_buf(Reconstructor(w, instance.height), s)

\* The tags of the h rows of stream s.
Tags(s, h, strd) == [r \in 1 .. h |-> At(s, (r - 1) * (strd + 1))]

\* C24: a Reconstructor retains no data from a completed call: a second
\* reconstruction on the same object, of stream S, ends as it does on a new
\* object, with the same buffer, and the per-row filter-type sequence the
\* object has recorded after it has exactly height entries, those of S.
C24_NoRetainedData ==
    (pc = "reconstructor" /\ Len(results) = 2) =>
        /\ results[2].raised = Fresh(bufs[2]).raised
        /\ results[2].value = Fresh(bufs[2]).value
        /\ "filter_bytes_index" \in DOMAIN instance =>
              instance.filter_bytes_index =
                  Tags(bufs[2], instance.height, instance.stride)

\* C25: in the buffered decode path the square sampled for column offset i
\* of row h has a = the reconstructed byte 4 positions to the left in the
\* row (0 when i < 4), b = the byte right above, c = the byte above and 4
\* positions to the left (0 when i < 4), the window of next_recon_square.
C25_BufferedWindow ==
    (pc = "reconstructor" /\ Len(results) >= 1) =>
        LET out == IF instance.module = "png_decoder" THEN results[1].value
                   ELSE <<>>
            sampled == results[1].sampled
        IN  \A n \in 1 .. Len(sampled) :
               LET h == sampled[n].h
                   i == sampled[n].i
                   sq == sampled[n].square
               IN  /\ sq.a = (IF i < 4 THEN 0
                              ELSE Cell(out, instance.stride, h, i - 4))
                   /\ sq.b = Cell(out, instance.stride, h - 1, i)
                   /\ sq.c = (IF i < 4 THEN 0
                              ELSE Cell(out, instance.stride, h - 1, i - 4))

====
